---- MODULE Spec2Model ----
(***************************************************************************)
(* Model of the groovyds/MSA backend: the presentation API (direct and     *)
(* chunked upload), the chat API and the embedding service.                *)
(*                                                                         *)
(* Text is modelled as sequences of one-character strings, so that the     *)
(* path and extension functions are computed as os.path computes them.     *)
(***************************************************************************)
EXTENDS Integers, Sequences, FiniteSets, TLC

\* ------------------------------------------------------------------ bounds
\* Rows a table may hold before the handlers that insert stop being offered.
MaxPresentations == 2
MaxChats == 2
\* Upload ids uuid4 may hand out (directories start_upload may create).
MaxUploads == 2
\* Largest declared chunk count / chunk index a client sends.
MaxTotalChunks == 2
\* Chunks the streamed file yields, and the batch size and concurrency limit
\* create_embeddings_optimized is called with (its defaults are 500 and 5).
MaxFileChunks == 3
MaxBatchSize == 2
MaxConcurrent == 2

\* ------------------------------------------------------- text and os.path
None == [none |-> TRUE]

Str_a_pptx == <<"a", ".", "p", "p", "t", "x">>
Str_b_PDF == <<"b", ".", "P", "D", "F">>
Str_c_py == <<"c", ".", "p", "y">>
Str_pptx == <<"p", "p", "t", "x">>

\* The filenames a client sends; all match the schema's pattern ^[\w\-\.]+$.
FileNames == {Str_a_pptx, Str_b_PDF, Str_c_py, Str_pptx}

\* str.lower(), on one character
UpperLetters ==
    <<"A", "B", "C", "D", "E", "F", "G", "H", "I", "J", "K", "L", "M",
      "N", "O", "P", "Q", "R", "S", "T", "U", "V", "W", "X", "Y", "Z">>
LowerLetters ==
    <<"a", "b", "c", "d", "e", "f", "g", "h", "i", "j", "k", "l", "m",
      "n", "o", "p", "q", "r", "s", "t", "u", "v", "w", "x", "y", "z">>

LowerChar(c) ==
    IF \E i \in 1..Len(UpperLetters) : UpperLetters[i] = c
    THEN LowerLetters[CHOOSE i \in 1..Len(UpperLetters) : UpperLetters[i] = c]
    ELSE c

lower(s) == [i \in 1..Len(s) |-> LowerChar(s[i])]

\* str.rfind(c) + 1: the last position of c in s, 0 when c does not occur.
rfind(s, c) ==
    IF \E i \in 1..Len(s) : s[i] = c
    THEN CHOOSE i \in 1..Len(s) : s[i] = c /\ \A j \in (i+1)..Len(s) : s[j] # c
    ELSE 0

\* os.path.splitext(p)[1]: from the last dot of the last path component, unless
\* that dot is one of the component's leading dots; else the empty string.
splitext_ext(p) ==
    LET sep == rfind(p, "/")
        dot == rfind(p, ".")
    IN IF dot > sep /\ \E k \in (sep+1)..(dot-1) : p[k] # "."
       THEN SubSeq(p, dot, Len(p))
       ELSE <<>>

\* os.path.basename(p)
basename(p) == SubSeq(p, rfind(p, "/") + 1, Len(p))

\* ---------------------------------------------------------- configuration
\* Settings.UPLOAD_DIR
UPLOAD_DIR == <<"u", "p", "l", "o", "a", "d", "s">>

\* Settings.MAX_UPLOAD_SIZE
MAX_FILE_SIZE == 50 * 1024 * 1024

\* Settings.ALLOWED_EXTENSIONS, the default of the class: no leading dots.
DefaultAllowedExtensions ==
    {<<"p", "p", "t", "x">>, <<"p", "d", "f">>, <<"d", "o", "c", "x">>}

\* Settings is a BaseSettings: the environment (or .env) may set the list. The
\* model offers one such override, the same types written with their dot.
DottedAllowedExtensions ==
    {<<".">> \o e : e \in DefaultAllowedExtensions}

\* os.path.join(UPLOAD_DIR, name)
join(dir, name) == dir \o <<"/">> \o name

\* `import datetime` binds the module, and the module has no attribute `now`:
\* every datetime.now() of presentations.py raises AttributeError.
DatetimeModuleHasNow == FALSE

\* ------------------------------------------------------------------ state
VARIABLES
    ALLOWED_EXTENSIONS, \* the configured list, fixed at process start
    files,              \* upload directory: path -> content of each regular file
    dirs,               \* upload ids whose session directory exists
    metadata,           \* upload id -> content of its metadata.json
    chunkFiles,         \* <<upload id, index>> -> content of chunk_<index>
    started,            \* history: upload id -> the start-upload request that made its directory
    sent,               \* history: upload id -> the indices of its declared range sent to upload-chunk
    presentations,      \* table presentations, committed rows in id order
    chatHistory,        \* table chat_history, committed rows in id order
    tasks,              \* background tasks scheduled and not yet run
    last                \* the request handled last and its response

apiVars == <<ALLOWED_EXTENSIONS, files, dirs, metadata, chunkFiles, started, sent,
             presentations, chatHistory, tasks, last>>

\* One call of create_embeddings_optimized (embedding_service.py)
VARIABLES
    ingPc,              \* "idle", "streaming" (at the async for), "gathering", "inserting", "returned", "raised"
    ingArgs,            \* the call's arguments and what the file's chunk stream holds
    next_chunk_index,   \* process_large_file_in_batches_with_metadata: the next chunk's index
    chunk_batch,        \* the batch being embedded: its chunk_data, in order
    embTasks,           \* create_embeddings_batch: position in chunk_batch -> state of its task
    embedding_records,  \* what the last create_embeddings_batch returned
    total_embeddings,   \* the running total, returned at the end
    embeddingRows       \* table presentation_embeddings, committed rows in insert order

embVars == <<ingPc, ingArgs, next_chunk_index, chunk_batch, embTasks, embedding_records,
             total_embeddings, embeddingRows>>

\* One run of the generator chunk_text_streaming (text_processor.py)
VARIABLES
    chPc,               \* "idle", "segments" (in the for loop), "final", "done"
    chArgs,             \* the call's arguments: text, max_chunk_size, overlap
    segment_start,      \* the loop's i: where the next text_segment starts (0-based)
    carry_over,         \* the sentences carried into the next segment
    yielded             \* the chunks yielded so far, in order

chunkVars == <<chPc, chArgs, segment_start, carry_over, yielded>>

\* One call of a function that is modelled as a single step (a query, a routing
\* decision, a classification): the call with its arguments, and what came of it.
VARIABLES
    call,               \* None, or the function called and its arguments
    ret                 \* None, or what the call returned or raised and the calls it made

callVars == <<call, ret>>

\* One call of ChatAgent.chat (agents/base.py) and the workflow it runs
VARIABLES
    wfPc,               \* "idle", the node about to run, "END", "returned", "raised"
    wfAgent,            \* the agent _route_to_agent chose
    wfState,            \* the AgentState of the run
    visited,            \* history: the nodes that ran, in order
    llm_calls,          \* history: calls of self.llm.ainvoke
    chat_return,        \* what chat() returned
    conversation_history \* ChatAgent.conversation_history

agentVars == <<wfPc, wfAgent, wfState, visited, llm_calls, chat_return, conversation_history>>

\* The sessions get_db hands to requests (db/database.py)
VARIABLES
    db_sessions,        \* session id -> [open, closes]: SessionLocal() objects and their db.close() calls
    requests            \* request id -> [endpoint, db, pc, exit]: requests that depend on get_db

dbVars == <<db_sessions, requests>>

vars == <<apiVars, embVars, chunkVars, callVars, agentVars, dbVars>>

\* What the handlers of one component leave alone.
notApiVars == <<embVars, chunkVars, callVars, agentVars, dbVars>>
notEmbVars == <<apiVars, chunkVars, callVars, agentVars, dbVars>>
notChunkVars == <<apiVars, embVars, callVars, agentVars, dbVars>>
notCallVars == <<apiVars, embVars, chunkVars, agentVars, dbVars>>
notAgentVars == <<apiVars, embVars, chunkVars, callVars, dbVars>>
notDbVars == <<apiVars, embVars, chunkVars, callVars, agentVars>>

\* Uploaded file bodies: an identity and a byte length (len(content)).
Contents ==
    { [id |-> 1, size |-> 25],
      [id |-> 2, size |-> MAX_FILE_SIZE],
      [id |-> 3, size |-> MAX_FILE_SIZE + 1] }

\* A response (or the exception FastAPI turns into one), with what the handler
\* did to its database session. n flips with every request handled.
Response(op, req, status, detail, body, calls) ==
    [n |-> 1 - last.n, op |-> op, req |-> req, status |-> status,
     detail |-> detail, body |-> body, calls |-> calls]

NoCalls == [add |-> 0, commit |-> 0, refresh |-> 0, rollback |-> 0, generate |-> 0]

\* models.Presentation as built by the two upload handlers
Presentation(id, filename, file_path, file_size) ==
    [id |-> id, filename |-> filename, file_path |-> file_path,
     file_size |-> file_size, user_id |-> "default_user",
     presentation_metadata |-> <<>>]

ApiInit ==
    /\ ALLOWED_EXTENSIONS \in {DefaultAllowedExtensions, DottedAllowedExtensions}
    /\ files = <<>>
    /\ dirs = {}
    /\ metadata = <<>>
    /\ chunkFiles = <<>>
    /\ started = <<>>
    /\ sent = <<>>
    /\ presentations = <<>>
    /\ chatHistory = <<>>
    /\ tasks = <<>>
    /\ last = [n |-> 0, op |-> "none", req |-> None, status |-> 0,
               detail |-> "", body |-> None, calls |-> NoCalls]

EmbInit ==
    /\ ingPc = "idle"
    /\ ingArgs = None
    /\ next_chunk_index = 0
    /\ chunk_batch = <<>>
    /\ embTasks = <<>>
    /\ embedding_records = <<>>
    /\ total_embeddings = 0
    /\ embeddingRows = <<>>

\* f with key k set to v, k added to the domain when new (a file written).
Put(f, k, v) == [x \in DOMAIN f \cup {k} |-> IF x = k THEN v ELSE f[x]]

\* ------------------------------------------------------ POST /upload
\* validate_file without its size test.
validate_file_no_size_check(filename, content) ==
    IF lower(splitext_ext(filename)) \notin ALLOWED_EXTENSIONS
    THEN "File type not allowed"
    ELSE "ok"

\* validate_file: the detail of the HTTPException it raises, or "ok".
validate_file(filename, content) ==
    IF lower(splitext_ext(filename)) \notin ALLOWED_EXTENSIONS
    THEN "File type not allowed"
    ELSE IF content.size > MAX_FILE_SIZE
    THEN "File too large"
    ELSE "ok"

\* save_file: the path written
save_file_path(filename) == join(UPLOAD_DIR, basename(filename))

\* upload_presentation. diskOk: open/write of the target succeeds; dbOk: the
\* commit succeeds.
upload_presentation(filename, content, diskOk, dbOk) ==
    LET req == [filename |-> filename, content |-> content]
        v == validate_file(filename, content)
        file_path == save_file_path(filename)
        row == Presentation(Len(presentations) + 1, filename, file_path, content.size)
    IN
    /\ Len(presentations) < MaxPresentations
    /\ IF v # "ok"
       THEN /\ last' = Response("upload", req, 400, v, None, NoCalls)
            /\ UNCHANGED <<files, presentations, tasks>>
       ELSE IF ~diskOk
       THEN /\ last' = Response("upload", req, 500, "Could not save file", None, NoCalls)
            /\ UNCHANGED <<files, presentations, tasks>>
       ELSE IF ~dbOk
       THEN /\ files' = Put(files, file_path, content)
            /\ last' = Response("upload", req, 500, "Database error", None,
                                [NoCalls EXCEPT !.add = 1, !.commit = 1])
            /\ UNCHANGED <<presentations, tasks>>
       ELSE /\ files' = Put(files, file_path, content)
            /\ presentations' = Append(presentations, row)
            /\ tasks' = Append(tasks, [fn |-> "create_embeddings_task",
                                       file_path |-> file_path,
                                       presentation_id |-> row.id])
            /\ last' = Response("upload", req, 200, "", row,
                                [NoCalls EXCEPT !.add = 1, !.commit = 1, !.refresh = 1])
    /\ UNCHANGED <<ALLOWED_EXTENSIONS, dirs, metadata, chunkFiles, started, sent, chatHistory>>
    /\ UNCHANGED notApiVars

\* ------------------------------------------------------ POST /start-upload
\* The JSON bodies a client sends: the three required fields, or one missing.
FullStartRequests ==
    [filename : FileNames, fileSize : {3}, totalChunks : 0..MaxTotalChunks]

StartRequests ==
    FullStartRequests
    \cup { [fileSize |-> 3, totalChunks |-> 1],
           [filename |-> Str_a_pptx, totalChunks |-> 1],
           [filename |-> Str_a_pptx, fileSize |-> 3] }

\* The first required field the request lacks, in the order the loop tests them.
first_missing_field(request) ==
    IF "filename" \notin DOMAIN request THEN "filename"
    ELSE IF "fileSize" \notin DOMAIN request THEN "fileSize"
    ELSE IF "totalChunks" \notin DOMAIN request THEN "totalChunks"
    ELSE "none"

\* The timestamp datetime.now() would return, were it callable.
Times == {1000}

\* start_upload. u: the id uuid4 returns, one that names no directory yet.
start_upload(request, u, now) ==
    LET miss == first_missing_field(request) IN
    /\ u \in (1..MaxUploads) \ dirs
    /\ IF miss # "none"
       THEN /\ last' = Response("start-upload", request, 400,
                                "Missing required field", [field |-> miss], NoCalls)
            /\ UNCHANGED <<dirs, metadata, started, sent>>
       ELSE IF lower(splitext_ext(request.filename)) \notin ALLOWED_EXTENSIONS
       THEN /\ last' = Response("start-upload", request, 400,
                                "File type not allowed", None, NoCalls)
            /\ UNCHANGED <<dirs, metadata, started, sent>>
       ELSE \* os.makedirs(temp_dir), then the metadata dict is built
            /\ dirs' = dirs \cup {u}
            /\ started' = Put(started, u, request)
            /\ sent' = Put(sent, u, {})
            /\ IF DatetimeModuleHasNow
               THEN /\ metadata' = Put(metadata, u,
                                       [filename |-> request.filename,
                                        fileSize |-> request.fileSize,
                                        totalChunks |-> request.totalChunks,
                                        chunks |-> <<>>,
                                        created |-> now])
                    /\ last' = Response("start-upload", request, 200, "",
                                        [upload_id |-> u], NoCalls)
               ELSE \* AttributeError while building the dict: nothing is written
                    /\ metadata' = metadata
                    /\ last' = Response("start-upload", request, 500,
                                        "Internal Server Error", None, NoCalls)
    /\ UNCHANGED <<ALLOWED_EXTENSIONS, files, chunkFiles, presentations, chatHistory, tasks>>
    /\ UNCHANGED notApiVars

\* ------------------------------------------------------ POST /upload-chunk
\* The bytes of one chunk.
ChunkData == {<<1>>, <<2, 3>>}

\* How the client wrote the upload id: uuid.UUID() parses "canonical" and
\* "noncanonical" (upper case, braces), and str() of the result equals the text only
\* for "canonical"; "malformed" does not parse.
IdForms == {"canonical", "noncanonical", "malformed"}

\* The first try-block of upload_chunk and finalize_upload: TRUE when the id is
\* accepted. A noncanonical id raises inside the try in both: a ValueError in
\* finalize_upload, and in upload_chunk HTTPException("Invalid UUID format"), whose
\* constructor raises ValueError for a status that is no HTTP status.
uuid_accepted(idform) == idform = "canonical"

\* i \in metadata["chunks"]
InList(x, s) == \E k \in 1..Len(s) : s[k] = x

upload_chunk(chunk, idform, upload_id, chunk_index, total_chunks, diskOk, now) ==
    LET req == [chunk |-> chunk, idform |-> idform, upload_id |-> upload_id,
                chunk_index |-> chunk_index, total_chunks |-> total_chunks]
    IN
    /\ IF ~uuid_accepted(idform)
       THEN /\ last' = Response("upload-chunk", req, 400, "Invalid upload ID format", None, NoCalls)
            /\ UNCHANGED <<metadata, chunkFiles>>
       ELSE IF upload_id \notin DOMAIN metadata
       THEN /\ last' = Response("upload-chunk", req, 400, "Upload session not found", None, NoCalls)
            /\ UNCHANGED <<metadata, chunkFiles>>
       ELSE LET md == metadata[upload_id] IN
            IF chunk_index < 0 \/ chunk_index >= md.totalChunks
            THEN /\ last' = Response("upload-chunk", req, 400, "Invalid chunk index", None, NoCalls)
                 /\ UNCHANGED <<metadata, chunkFiles>>
            ELSE IF ~diskOk
            THEN /\ last' = Response("upload-chunk", req, 500, "Failed to save chunk", None, NoCalls)
                 /\ UNCHANGED <<metadata, chunkFiles>>
            ELSE /\ chunkFiles' = Put(chunkFiles, <<upload_id, chunk_index>>, chunk)
                 /\ IF InList(chunk_index, md.chunks)
                    THEN /\ metadata' = metadata
                         /\ last' = Response("upload-chunk", req, 200, "chunk uploaded",
                                             [chunksReceived |-> Len(md.chunks),
                                              totalChunks |-> md.totalChunks], NoCalls)
                    ELSE IF DatetimeModuleHasNow
                    THEN LET md2 == [f \in DOMAIN md \cup {"lastUpdated"} |->
                                        IF f = "chunks" THEN Append(md.chunks, chunk_index)
                                        ELSE IF f = "lastUpdated" THEN now
                                        ELSE md[f]]
                         IN /\ metadata' = Put(metadata, upload_id, md2)
                            /\ last' = Response("upload-chunk", req, 200, "chunk uploaded",
                                                [chunksReceived |-> Len(md2.chunks),
                                                 totalChunks |-> md2.totalChunks], NoCalls)
                    ELSE \* AttributeError after the append: metadata.json is not rewritten
                         /\ metadata' = metadata
                         /\ last' = Response("upload-chunk", req, 500,
                                             "Internal Server Error", None, NoCalls)
    /\ sent' = IF /\ uuid_accepted(idform)
                  /\ upload_id \in DOMAIN started
                  /\ chunk_index \in 0..(started[upload_id].totalChunks - 1)
               THEN Put(sent, upload_id, sent[upload_id] \cup {chunk_index})
               ELSE sent
    /\ UNCHANGED <<ALLOWED_EXTENSIONS, files, dirs, started, presentations, chatHistory, tasks>>
    /\ UNCHANGED notApiVars

\* ------------------------------------------------------ POST /finalize-upload
\* set(range(n))
RangeSet(n) == 0..(n - 1)

\* set(list)
ListSet(s) == {s[k] : k \in 1..Len(s)}

\* sorted(list): ascending, repeated values kept
RECURSIVE sorted(_)
sorted(s) ==
    IF s = <<>> THEN <<>>
    ELSE LET m == CHOOSE k \in 1..Len(s) : \A j \in 1..Len(s) : s[k] <= s[j]
             rest == [j \in 1..(Len(s) - 1) |-> IF j < m THEN s[j] ELSE s[j + 1]]
         IN <<s[m]>> \o sorted(rest)

\* The bytes the assembly loop writes: the chunk files of upload u, one after the
\* other, in the order given.
RECURSIVE concat_chunks(_, _)
concat_chunks(u, order) ==
    IF order = <<>> THEN <<>>
    ELSE chunkFiles[<<u, Head(order)>>] \o concat_chunks(u, Tail(order))

\* list(missing_chunks)[:10]: the set itself up to ten members, else some ten of it
first_ten(S) ==
    IF Cardinality(S) <= 10 THEN S
    ELSE CHOOSE T \in SUBSET S : Cardinality(T) = 10

\* g without key k (a file or directory removed)
Drop(g, K) == [x \in DOMAIN g \ K |-> g[x]]

\* finalize_upload. diskOk: the assembly loop succeeds; dbOk: the commit succeeds.
finalize_upload(idform, upload_id, diskOk, dbOk) ==
    LET req == [idform |-> idform, upload_id |-> upload_id] IN
    /\ Len(presentations) < MaxPresentations
    /\ IF ~uuid_accepted(idform)
       THEN /\ last' = Response("finalize-upload", req, 400, "Invalid upload ID format", None, NoCalls)
            /\ UNCHANGED <<files, presentations, tasks>>
       ELSE IF upload_id \notin DOMAIN metadata
       THEN /\ last' = Response("finalize-upload", req, 404, "Invalid upload ID", None, NoCalls)
            /\ UNCHANGED <<files, presentations, tasks>>
       ELSE LET md == metadata[upload_id]
                expected_chunks == RangeSet(md.totalChunks)
                received_chunks == ListSet(md.chunks)
                file_path == join(UPLOAD_DIR, md.filename)
                assembled == [bytes |-> concat_chunks(upload_id, sorted(md.chunks))]
                row == Presentation(Len(presentations) + 1, md.filename, file_path, md.fileSize)
            IN
            IF expected_chunks # received_chunks
            THEN /\ last' = Response("finalize-upload", req, 400, "Incomplete upload",
                                     [missing |-> first_ten(expected_chunks \ received_chunks)],
                                     NoCalls)
                 /\ UNCHANGED <<files, presentations, tasks>>
            ELSE IF ~diskOk
            THEN /\ last' = Response("finalize-upload", req, 500, "Failed to assemble file", None, NoCalls)
                 /\ UNCHANGED <<files, presentations, tasks>>
            ELSE IF ~dbOk
            THEN \* cleanup_file(file_path) removes what was just assembled
                 /\ files' = Drop(files, {file_path})
                 /\ last' = Response("finalize-upload", req, 500, "Database error", None,
                                     [NoCalls EXCEPT !.add = 1, !.commit = 1])
                 /\ UNCHANGED <<presentations, tasks>>
            ELSE /\ files' = Put(files, file_path, assembled)
                 /\ presentations' = Append(presentations, row)
                 /\ tasks' = tasks \o
                       << [fn |-> "create_embeddings", file_path |-> file_path,
                           presentation_id |-> row.id],
                          [fn |-> "rmtree", upload_id |-> upload_id] >>
                 /\ last' = Response("finalize-upload", req, 200, "", row,
                                     [NoCalls EXCEPT !.add = 1, !.commit = 1, !.refresh = 1])
    /\ UNCHANGED <<ALLOWED_EXTENSIONS, dirs, metadata, chunkFiles, started, sent, chatHistory>>
    /\ UNCHANGED notApiVars

\* ------------------------------------------ POST /cleanup-abandoned-uploads
\* max_age = 24 * 60 * 60
max_age == 86400

MaxPendingTasks == 2

\* The times at which a cleanup may run: a day after the one start time, and a
\* second later.
CleanupTimes == {t + max_age : t \in Times} \cup {t + max_age + 1 : t \in Times}

\* max(created_time, last_updated) of a session's metadata
last_activity(md) ==
    IF "lastUpdated" \in DOMAIN md /\ md.lastUpdated > md.created THEN md.lastUpdated
    ELSE md.created

\* The directories the loop of _cleanup_old_uploads removes at time now: those
\* that hold a metadata.json whose last activity is more than max_age ago.
abandoned(now) == {u \in dirs \cap DOMAIN metadata : now - last_activity(metadata[u]) > max_age}

\* cleanup_abandoned_uploads: the scan is scheduled, the answer is immediate.
cleanup_abandoned_uploads ==
    /\ Len(tasks) < MaxPendingTasks
    /\ tasks' = Append(tasks, [fn |-> "_cleanup_old_uploads"])
    /\ last' = Response("cleanup-abandoned-uploads", None, 200, "",
                        [status |-> "Cleanup task scheduled"], NoCalls)
    /\ UNCHANGED <<ALLOWED_EXTENSIONS, files, dirs, metadata, chunkFiles, started, sent,
                   presentations, chatHistory>>
    /\ UNCHANGED notApiVars

\* ------------------------------------------------------ GET /check-upload
check_upload(upload_id) ==
    /\ IF upload_id \notin DOMAIN metadata
       THEN last' = Response("check-upload", [upload_id |-> upload_id], 404,
                             "Upload session not found", None, NoCalls)
       ELSE last' = Response("check-upload", [upload_id |-> upload_id], 200, "",
                             [status |-> "active", metadata |-> metadata[upload_id]], NoCalls)
    /\ UNCHANGED <<ALLOWED_EXTENSIONS, files, dirs, metadata, chunkFiles, started, sent,
                   presentations, chatHistory, tasks>>
    /\ UNCHANGED notApiVars

\* ------------------------------------------------------ background tasks
\* The directories, metadata files and chunk files left when the directories of
\* gone are removed with all they hold.
remove_dirs(gone) ==
    /\ dirs' = dirs \ gone
    /\ metadata' = Drop(metadata, gone)
    /\ chunkFiles' = Drop(chunkFiles, {k \in DOMAIN chunkFiles : k[1] \in gone})

\* The response has been sent; Starlette runs the request's tasks in the order
\* they were added, and a task that raises ends the run: the tasks the same
\* request added after it are not run. raises: whether an embedding step
\* raises; now: the time of a cleanup scan.
\*  - shutil.rmtree removes the session directory with all it holds;
\*  - create_embeddings_task catches what its embedding step raises;
\*  - create_embeddings, as finalize_upload schedules it, has no such boundary:
\*    when it raises, the rmtree added after it is dropped;
\*  - _cleanup_old_uploads raises at its first line, datetime.now().
\* The rows an embedding step writes are PresentationEmbedding rows, the state
\* of the ingestion actions below.
run_task_outcome(raises, now) ==
    /\ tasks # <<>>
    /\ LET t == Head(tasks) IN
       /\ IF t.fn = "rmtree" THEN remove_dirs({t.upload_id})
          ELSE IF t.fn = "_cleanup_old_uploads" /\ DatetimeModuleHasNow
          THEN remove_dirs(abandoned(now))
          ELSE UNCHANGED <<dirs, metadata, chunkFiles>>
       /\ tasks' = IF t.fn = "create_embeddings" /\ raises /\ Len(tasks) > 1
                       /\ tasks[2].fn = "rmtree"
                   THEN Tail(Tail(tasks))
                   ELSE Tail(tasks)
    /\ UNCHANGED <<ALLOWED_EXTENSIONS, files, started, sent, presentations, chatHistory, last>>
    /\ UNCHANGED notApiVars

run_task == \E raises \in BOOLEAN, now \in CleanupTimes : run_task_outcome(raises, now)

\* ------------------------------------------------------ POST /message
UserIds == {"test_user"}
MessageTexts == {"q1", "q2"}
\* What generate_response returns: a text, or "RAISE" when it raises.
GenerateOutcomes == {"answer", "RAISE"}

\* models.ChatHistory as built by send_message
ChatHistory(id, user_id, presentation_id, message, response) ==
    [id |-> id, user_id |-> user_id, presentation_id |-> presentation_id,
     message |-> message, response |-> response]

\* The lookup answering for any id once the table holds a row.
presentation_exists_any_row(id) == presentations # <<>>

\* select(Presentation).where(Presentation.id == id) ... scalar_one_or_none()
presentation_exists(id) == \E k \in 1..Len(presentations) : presentations[k].id = id

\* What the handler does after a generation that raised, were the row saved before
\* the service is called: the row stays, with no response.
after_generation_raised_row_kept(req) ==
    /\ last' = Response("message", req, 500, "Failed to generate response", None,
                        [NoCalls EXCEPT !.generate = 1, !.add = 1, !.commit = 1, !.rollback = 2])
    /\ chatHistory' = Append(chatHistory,
            [id |-> Len(chatHistory) + 1, user_id |-> req.user_id,
             presentation_id |-> req.presentation_id, message |-> req.content,
             response |-> "None"])

\* The except-branch of send_message after generate_response raised:
\* ChatService.generate_response has rolled back and re-raised, the handler rolls
\* back again and answers 500; nothing was added to the session.
after_generation_raised(req) ==
    /\ last' = Response("message", req, 500, "Failed to generate response", None,
                        [NoCalls EXCEPT !.generate = 1, !.rollback = 2])
    /\ chatHistory' = chatHistory

\* send_message. generated: what the chat service does; commitOk, refreshOk: whether
\* those two session calls succeed.
send_message(user_id, presentation_id, content, generated, commitOk, refreshOk) ==
    LET req == [user_id |-> user_id, presentation_id |-> presentation_id, content |-> content]
        row == ChatHistory(Len(chatHistory) + 1, user_id, presentation_id, content, generated)
    IN
    /\ Len(chatHistory) < MaxChats
    /\ IF ~presentation_exists(presentation_id)
       THEN /\ last' = Response("message", req, 404, "Presentation not found", None, NoCalls)
            /\ chatHistory' = chatHistory
       ELSE IF generated = "RAISE"
       THEN after_generation_raised(req)
       ELSE IF ~commitOk
       THEN /\ last' = Response("message", req, 500, "commit failed", None,
                                [NoCalls EXCEPT !.generate = 1, !.add = 1, !.commit = 1,
                                                !.rollback = 1])
            /\ chatHistory' = chatHistory
       ELSE IF ~refreshOk
       THEN \* the row is committed; the handler still answers 500
            /\ last' = Response("message", req, 500, "refresh failed", None,
                                [NoCalls EXCEPT !.generate = 1, !.add = 1, !.commit = 1,
                                                !.refresh = 1, !.rollback = 1])
            /\ chatHistory' = Append(chatHistory, row)
       ELSE /\ last' = Response("message", req, 200, "",
                                [message |-> content, response |-> generated],
                                [NoCalls EXCEPT !.generate = 1, !.add = 1, !.commit = 1,
                                                !.refresh = 1])
            /\ chatHistory' = Append(chatHistory, row)
    /\ UNCHANGED <<ALLOWED_EXTENSIONS, files, dirs, metadata, chunkFiles, started, sent,
                   presentations, tasks>>
    /\ UNCHANGED notApiVars

\* ------------------------------------------------------ the HTTP service
\* The service is checked one router group at a time; each specification offers
\* the requests of its group and leaves the rest of the state as it is.

ChunkInit ==
    /\ chPc = "idle"
    /\ chArgs = None
    /\ segment_start = 0
    /\ carry_over = <<>>
    /\ yielded = <<>>

CallInit ==
    /\ call = None
    /\ ret = None

\* ChatAgent.__init__, and no chat() begun
AgentInit ==
    /\ wfPc = "idle"
    /\ wfAgent = "none"
    /\ wfState = None
    /\ visited = <<>>
    /\ llm_calls = 0
    /\ chat_return = None
    /\ conversation_history = <<>>

\* No request has come in
DbInit ==
    /\ db_sessions = <<>>
    /\ requests = <<>>

Init == ApiInit /\ EmbInit /\ ChunkInit /\ CallInit /\ AgentInit /\ DbInit

\* POST /upload and the background tasks it schedules.
UploadNext ==
    \/ \E f \in FileNames, c \in Contents, diskOk \in BOOLEAN, dbOk \in BOOLEAN :
          upload_presentation(f, c, diskOk, dbOk)
    \/ run_task

SpecUpload == Init /\ [][UploadNext]_vars

\* The chunked upload: start-upload, upload-chunk, finalize-upload.
ChunkedNext ==
    \/ \E r \in StartRequests, u \in 1..MaxUploads, now \in Times :
          start_upload(r, u, now)
    \/ \E c \in ChunkData, idf \in IdForms, u \in 1..MaxUploads,
          i \in (-1)..MaxTotalChunks, t \in 1..MaxTotalChunks, diskOk \in BOOLEAN, now \in Times :
          upload_chunk(c, idf, u, i, t, diskOk, now)
    \/ \E idf \in IdForms, u \in 1..MaxUploads, diskOk \in BOOLEAN, dbOk \in BOOLEAN :
          finalize_upload(idf, u, diskOk, dbOk)

SpecChunked == Init /\ [][ChunkedNext]_vars

\* POST /message, over the presentations that uploads of one small file create.
ChatNext ==
    \/ \E dbOk \in BOOLEAN :
          upload_presentation(Str_a_pptx, [id |-> 1, size |-> 25], TRUE, dbOk)
    \/ run_task
    \/ \E uid \in UserIds, p \in 1..(MaxPresentations + 1), m \in MessageTexts,
          g \in GenerateOutcomes, commitOk \in BOOLEAN, refreshOk \in BOOLEAN :
          send_message(uid, p, m, g, commitOk, refreshOk)

SpecChat == Init /\ [][ChatNext]_vars

\* ------------------------------------------------------ embedding service
\* create_single_embedding_optimized: max_retries, base_delay
max_retries == 3
base_delay == 1

\* The values db_batch_size takes: one row per commit, and the default.
DbBatchSizes == {1, 1000}

RECURSIVE Pow2(_)
Pow2(k) == IF k = 0 THEN 1 ELSE 2 * Pow2(k - 1)

\* The whole seconds of the backoff after failed attempt `attempt`; the jitter
\* added to it is less than a second.
backoff_delay(attempt) == base_delay * Pow2(attempt)

\* `attempt == max_retries` - a test that no attempt of range(max_retries) meets.
retry_exhausted_off_by_one(attempt) == attempt = max_retries

\* `attempt == max_retries - 1`: the failure of the last attempt is re-raised.
retry_exhausted(attempt) == attempt = max_retries - 1

\* The chunk_data dict process_large_file_in_batches_with_metadata builds.
chunk_data(i, presentation_id) ==
    [text |-> <<"text", i>>, chunk_index |-> i, presentation_id |-> presentation_id]

\* PresentationEmbedding(...) as create_single_embedding_optimized builds it.
PresentationEmbedding(cd) ==
    [presentation_id |-> cd.presentation_id, chunk_index |-> cd.chunk_index,
     text |-> cd.text, embedding |-> <<"embedding of", cd.text>>]

\* create_embeddings_optimized up to its loop. n: the chunks the file's stream
\* holds; the other parameters are the function's.
create_embeddings_optimized(n, presentation_id, chunk_batch_size, db_batch_size, max_concurrent, fileExists, presentationFound) ==
    /\ ingPc = "idle"
    /\ ingArgs' = [n |-> n, presentation_id |-> presentation_id,
                   chunk_batch_size |-> chunk_batch_size, db_batch_size |-> db_batch_size,
                   max_concurrent |-> max_concurrent]
    /\ ingPc' = IF fileExists /\ presentationFound THEN "streaming" ELSE "raised"
    /\ total_embeddings' = 0
    /\ next_chunk_index' = 0
    /\ UNCHANGED <<chunk_batch, embTasks, embedding_records, embeddingRows>>
    /\ UNCHANGED notEmbVars

\* The async for asks the generator for its next batch: batch_size chunks, or the
\* remaining ones, each tagged with the running next_chunk_index; when the stream is
\* exhausted the function returns total_embeddings. create_embeddings_batch then
\* creates one task per chunk.
next_batch ==
    /\ ingPc = "streaming"
    /\ IF next_chunk_index < ingArgs.n
       THEN LET size == IF ingArgs.n - next_chunk_index < ingArgs.chunk_batch_size
                        THEN ingArgs.n - next_chunk_index ELSE ingArgs.chunk_batch_size
            IN /\ chunk_batch' = [k \in 1..size |->
                                    chunk_data(next_chunk_index + k - 1, ingArgs.presentation_id)]
               /\ next_chunk_index' = next_chunk_index + size
               /\ embTasks' = [k \in 1..size |->
                                 [st |-> "waiting", attempt |-> 0, calls |-> 0, slept |-> <<>>]]
               /\ ingPc' = "gathering"
       ELSE /\ ingPc' = "returned"
            /\ UNCHANGED <<chunk_batch, next_chunk_index, embTasks>>
    /\ UNCHANGED <<ingArgs, embedding_records, total_embeddings, embeddingRows>>
    /\ UNCHANGED notEmbVars

\* Were the permit given back when a task goes to sleep: only the tasks inside an
\* API call would count against the semaphore.
Holders_calling_only == {k \in DOMAIN embTasks : embTasks[k].st = "calling"}

\* Tasks inside `async with semaphore`.
Holders == {k \in DOMAIN embTasks : embTasks[k].st \in {"calling", "sleeping"}}

\* create_embedding_with_limit: the semaphore admits task i, which makes its first call.
semaphore_acquire(i) ==
    /\ ingPc = "gathering"
    /\ i \in DOMAIN embTasks
    /\ embTasks[i].st = "waiting"
    /\ Cardinality(Holders) < ingArgs.max_concurrent
    /\ embTasks' = [embTasks EXCEPT ![i].st = "calling", ![i].calls = 1]
    /\ UNCHANGED <<ingPc, ingArgs, next_chunk_index, chunk_batch, embedding_records,
                   total_embeddings, embeddingRows>>
    /\ UNCHANGED notEmbVars

\* client.embeddings.create returns: the record is built and returned.
embeddings_create_returns(i) ==
    /\ ingPc = "gathering"
    /\ i \in DOMAIN embTasks
    /\ embTasks[i].st = "calling"
    /\ embTasks' = [embTasks EXCEPT ![i].st = "returned"]
    /\ UNCHANGED <<ingPc, ingArgs, next_chunk_index, chunk_batch, embedding_records,
                   total_embeddings, embeddingRows>>
    /\ UNCHANGED notEmbVars

\* client.embeddings.create raises: re-raise on the last attempt, else back off.
embeddings_create_raises(i) ==
    /\ ingPc = "gathering"
    /\ i \in DOMAIN embTasks
    /\ embTasks[i].st = "calling"
    /\ embTasks' =
          IF retry_exhausted(embTasks[i].attempt)
          THEN [embTasks EXCEPT ![i].st = "raised"]
          ELSE [embTasks EXCEPT ![i].st = "sleeping",
                                ![i].slept = Append(@, backoff_delay(embTasks[i].attempt))]
    /\ UNCHANGED <<ingPc, ingArgs, next_chunk_index, chunk_batch, embedding_records,
                   total_embeddings, embeddingRows>>
    /\ UNCHANGED notEmbVars

\* asyncio.sleep(delay) is over: the next attempt of range(max_retries) calls the
\* API; were the range used up, the function would fall off its end and return None.
sleep_ends(i) ==
    /\ ingPc = "gathering"
    /\ i \in DOMAIN embTasks
    /\ embTasks[i].st = "sleeping"
    /\ embTasks' =
          IF embTasks[i].attempt + 1 < max_retries
          THEN [embTasks EXCEPT ![i].st = "calling", ![i].attempt = @ + 1, ![i].calls = @ + 1]
          ELSE [embTasks EXCEPT ![i].st = "returned None"]
    /\ UNCHANGED <<ingPc, ingArgs, next_chunk_index, chunk_batch, embedding_records,
                   total_embeddings, embeddingRows>>
    /\ UNCHANGED notEmbVars

\* The positions of chunk_batch, in order, whose task did not end in an exception.
RECURSIVE kept_positions(_, _)
kept_positions(tsk, k) ==
    IF k > Len(tsk) THEN <<>>
    ELSE IF tsk[k].st = "raised" THEN kept_positions(tsk, k + 1)
    ELSE <<k>> \o kept_positions(tsk, k + 1)

\* gather(..., return_exceptions=True), were it to raise the first exception
\* instead of returning it among the results.
gather_results_first_exception_raised ==
    /\ ingPc = "gathering"
    /\ \A k \in DOMAIN embTasks : embTasks[k].st \in {"returned", "raised", "returned None"}
    /\ IF \E k \in DOMAIN embTasks : embTasks[k].st = "raised"
       THEN /\ ingPc' = "raised"
            /\ embedding_records' = embedding_records
       ELSE /\ ingPc' = "inserting"
            /\ embedding_records' =
                  [j \in 1..Len(chunk_batch) |-> PresentationEmbedding(chunk_batch[j])]
    /\ UNCHANGED <<ingArgs, next_chunk_index, chunk_batch, embTasks, total_embeddings, embeddingRows>>
    /\ UNCHANGED notEmbVars

\* create_embeddings_batch after the gather: every task has ended; the results
\* that are exceptions are logged and skipped, the others returned in task order.
gather_results ==
    /\ ingPc = "gathering"
    /\ \A k \in DOMAIN embTasks : embTasks[k].st \in {"returned", "raised", "returned None"}
    /\ LET kept == kept_positions(embTasks, 1) IN
       embedding_records' =
          [j \in 1..Len(kept) |->
              IF embTasks[kept[j]].st = "returned"
              THEN PresentationEmbedding(chunk_batch[kept[j]])
              ELSE None]
    /\ ingPc' = "inserting"
    /\ UNCHANGED <<ingArgs, next_chunk_index, chunk_batch, embTasks, total_embeddings, embeddingRows>>
    /\ UNCHANGED notEmbVars

\* range(0, len, batch_size): how many sub-batches insert_embeddings_batch commits
sub_batches(len, size) == (len + size - 1) \div size

\* Were the ingestion one transaction: a failed add_all or commit would take the
\* rows of the earlier commits with it.
insert_embeddings_batch_all_or_nothing(okCommits) ==
    /\ ingPc = "inserting"
    /\ LET len == Len(embedding_records)
           size == ingArgs.db_batch_size
           need == sub_batches(len, size)
           firstNone == IF \E j \in 1..len : embedding_records[j] = None
                        THEN CHOOSE j \in 1..len :
                                /\ embedding_records[j] = None
                                /\ \A h \in 1..(j - 1) : embedding_records[h] # None
                        ELSE len + 1
           \* sub-batches before the one add_all rejects
           addable == IF firstNone > len THEN need ELSE (firstNone - 1) \div size
           done == IF okCommits < addable THEN okCommits ELSE addable
           upto == IF done * size < len THEN done * size ELSE len
       IN /\ okCommits \in 0..need
          /\ embeddingRows' = IF done = need
                              THEN embeddingRows \o SubSeq(embedding_records, 1, upto)
                              ELSE <<>>
          /\ IF done = need
             THEN /\ total_embeddings' = total_embeddings + len
                  /\ ingPc' = "streaming"
             ELSE /\ total_embeddings' = total_embeddings
                  /\ ingPc' = "raised"
    /\ UNCHANGED <<ingArgs, next_chunk_index, chunk_batch, embTasks, embedding_records>>
    /\ UNCHANGED notEmbVars

\* insert_embeddings_batch, then `total_embeddings += len(embedding_records)`.
\* okCommits: how many of its commits succeed. A failed add_all or commit leaves
\* the committed sub-batches in the table; the except-branch of
\* create_embeddings_optimized rolls back and re-raises.
insert_embeddings_batch(okCommits) ==
    /\ ingPc = "inserting"
    /\ LET len == Len(embedding_records)
           size == ingArgs.db_batch_size
           need == sub_batches(len, size)
           firstNone == IF \E j \in 1..len : embedding_records[j] = None
                        THEN CHOOSE j \in 1..len :
                                /\ embedding_records[j] = None
                                /\ \A h \in 1..(j - 1) : embedding_records[h] # None
                        ELSE len + 1
           \* sub-batches before the one add_all rejects
           addable == IF firstNone > len THEN need ELSE (firstNone - 1) \div size
           done == IF okCommits < addable THEN okCommits ELSE addable
           upto == IF done * size < len THEN done * size ELSE len
       IN /\ okCommits \in 0..need
          /\ embeddingRows' = embeddingRows \o SubSeq(embedding_records, 1, upto)
          /\ IF done = need
             THEN /\ total_embeddings' = total_embeddings + len
                  /\ ingPc' = "streaming"
             ELSE /\ total_embeddings' = total_embeddings
                  /\ ingPc' = "raised"
    /\ UNCHANGED <<ingArgs, next_chunk_index, chunk_batch, embTasks, embedding_records>>
    /\ UNCHANGED notEmbVars

EmbNext ==
    \/ \E n \in 0..MaxFileChunks, bs \in 1..MaxBatchSize, dbs \in DbBatchSizes,
          mc \in 1..MaxConcurrent, fileExists \in BOOLEAN, presentationFound \in BOOLEAN :
          create_embeddings_optimized(n, 1, bs, dbs, mc, fileExists, presentationFound)
    \/ next_batch
    \/ \E i \in 1..MaxBatchSize : semaphore_acquire(i)
    \/ \E i \in 1..MaxBatchSize : embeddings_create_returns(i)
    \/ \E i \in 1..MaxBatchSize : embeddings_create_raises(i)
    \/ \E i \in 1..MaxBatchSize : sleep_ends(i)
    \/ gather_results
    \/ \E okCommits \in 0..MaxBatchSize : insert_embeddings_batch(okCommits)

SpecEmbed == Init /\ [][EmbNext]_vars

\* The event loop runs every task that can run; an API call returns or raises and
\* a sleep ends.
SpecEmbedFair == SpecEmbed /\ WF_vars(EmbNext)

\* ----------------------------------------------------------- text chunking
\* chunk_text_streaming: `segment_size = max_chunk_size * 20`
SegmentFactor == 20

\* Longest of the texts enumerated in full, and the largest max_chunk_size and
\* overlap the generator is called with (its defaults are 1000 and 100).
MaxTextLen == 4
MaxChunkSize == 5
MaxOverlap == 2

\* The characters of the texts: a letter, a sentence terminator, two kinds of
\* whitespace.
ChunkAlphabet == {"a", ".", " ", "\n"}

\* The classes of the pattern [.!?]+\s+ among those characters
Terminators == {".", "!", "?"}
Whitespace == {" ", "\n"}

\* A word one character longer than the first segment of max_chunk_size = 1, and
\* two sentences whose separating blank is the first character of the second segment.
LongWord == [i \in 1..(SegmentFactor + 1) |-> "a"]
SentencesAcrossSegments ==
    [i \in 1..(SegmentFactor + 2) |->
        IF i = SegmentFactor THEN "." ELSE IF i = SegmentFactor + 1 THEN " " ELSE "a"]

\* The texts chunk_text_streaming is called with.
Texts ==
    UNION {[1..n -> ChunkAlphabet] : n \in 0..MaxTextLen}
        \cup {LongWord, SentencesAcrossSegments}

\* str.replace('\n', ' ')
replace_newlines(s) == [i \in 1..Len(s) |-> IF s[i] = "\n" THEN " " ELSE s[i]]

\* The last position of the run of characters of S that starts at i; i - 1 when
\* s[i] is not in S.
RECURSIVE run_end(_, _, _)
run_end(s, i, S) ==
    IF i <= Len(s) /\ s[i] \in S THEN run_end(s, i + 1, S) ELSE i - 1

\* re.split(r'[.!?]+\s+', s) from position i, the current piece starting at start:
\* a match is a whole run of terminators with the whole run of whitespace after it.
RECURSIVE re_split_from(_, _, _)
re_split_from(s, i, start) ==
    IF i > Len(s) THEN <<SubSeq(s, start, Len(s))>>
    ELSE LET j == run_end(s, i, Terminators)
             k == run_end(s, j + 1, Whitespace)
         IN IF j >= i /\ k > j
            THEN <<SubSeq(s, start, i - 1)>> \o re_split_from(s, k + 1, k + 1)
            ELSE re_split_from(s, i + 1, start)

re_split(s) == re_split_from(s, 1, 1)

\* str.strip()
strip(s) ==
    LET idx == {i \in 1..Len(s) : s[i] \notin Whitespace} IN
    IF idx = {} THEN <<>>
    ELSE SubSeq(s, CHOOSE i \in idx : \A j \in idx : i <= j,
                   CHOOSE i \in idx : \A j \in idx : i >= j)

\* The loop over raw_sentences: blank pieces are left out, every piece but the
\* last gets '+' appended after stripping.
RECURSIVE sentences_from(_, _)
sentences_from(raw_sentences, i) ==
    IF i > Len(raw_sentences) THEN <<>>
    ELSE LET sentence == strip(raw_sentences[i]) IN
         (IF sentence = <<>> THEN <<>>
          ELSE IF i < Len(raw_sentences) THEN <<sentence \o <<"+">>>>
          ELSE <<sentence>>)
         \o sentences_from(raw_sentences, i + 1)

split_sentences(text_segment) ==
    sentences_from(re_split(replace_newlines(text_segment)), 1)

\* ' '.join(list)
RECURSIVE str_join(_)
str_join(list) ==
    IF list = <<>> THEN <<>>
    ELSE IF Len(list) = 1 THEN list[1]
    ELSE list[1] \o <<" ">> \o str_join(Tail(list))

\* sum of len(s) over a list of sentences
RECURSIVE total_len(_)
total_len(list) == IF list = <<>> THEN 0 ELSE Len(list[1]) + total_len(Tail(list))

\* The overlap loop, were its test `>=`: a sentence that fills the overlap exactly
\* would be left out.
RECURSIVE overlap_from_below(_, _, _, _)
overlap_from_below(current_chunk, k, size, overlap) ==
    IF k = 0 \/ size + Len(current_chunk[k]) >= overlap THEN <<>>
    ELSE overlap_from_below(current_chunk, k - 1, size + Len(current_chunk[k]), overlap)
            \o <<current_chunk[k]>>

\* The overlap loop: sentences of current_chunk from its end, while their summed
\* length stays within overlap. k: the sentence looked at; size: overlap_size.
RECURSIVE overlap_from(_, _, _, _)
overlap_from(current_chunk, k, size, overlap) ==
    IF k = 0 \/ size + Len(current_chunk[k]) > overlap THEN <<>>
    ELSE overlap_from(current_chunk, k - 1, size + Len(current_chunk[k]), overlap)
            \o <<current_chunk[k]>>

\* The loop `for sentence in sentences` from sentence i on.
RECURSIVE pack_sentences(_, _, _, _, _, _, _)
pack_sentences(sentences, i, chunks, current_chunk, current_size, max_chunk_size, overlap) ==
    IF i > Len(sentences) THEN [chunks |-> chunks, current_chunk |-> current_chunk]
    ELSE LET sentence_size == Len(sentences[i]) IN
         IF current_size + sentence_size > max_chunk_size /\ current_chunk # <<>>
         THEN LET overlap_sentences ==
                      overlap_from(current_chunk, Len(current_chunk), 0, overlap)
              IN pack_sentences(sentences, i + 1,
                                Append(chunks, str_join(current_chunk)),
                                Append(overlap_sentences, sentences[i]),
                                total_len(overlap_sentences) + sentence_size,
                                max_chunk_size, overlap)
         ELSE pack_sentences(sentences, i + 1, chunks,
                             Append(current_chunk, sentences[i]),
                             current_size + sentence_size, max_chunk_size, overlap)

\* process_text_segment(text_segment, carry_over) -> (chunks, current_chunk)
process_text_segment(text_segment, carry, max_chunk_size, overlap) ==
    pack_sentences(carry \o split_sentences(text_segment), 1, <<>>, <<>>, 0,
                   max_chunk_size, overlap)

\* The generator is created.
chunk_text_streaming(text, max_chunk_size, overlap) ==
    /\ chPc = "idle"
    /\ chArgs' = [text |-> text, max_chunk_size |-> max_chunk_size, overlap |-> overlap]
    /\ chPc' = "segments"
    /\ segment_start' = 0
    /\ carry_over' = <<>>
    /\ yielded' = <<>>
    /\ UNCHANGED notChunkVars

\* One turn of `for i in range(0, len(text), segment_size)`: the segment is cut,
\* processed with the carried sentences, and its complete chunks are yielded.
process_next_segment ==
    /\ chPc = "segments"
    /\ segment_start < Len(chArgs.text)
    /\ LET segment_size == chArgs.max_chunk_size * SegmentFactor
           stop == IF segment_start + segment_size < Len(chArgs.text)
                   THEN segment_start + segment_size ELSE Len(chArgs.text)
           text_segment == SubSeq(chArgs.text, segment_start + 1, stop)
           r == process_text_segment(text_segment, carry_over,
                                     chArgs.max_chunk_size, chArgs.overlap)
       IN /\ yielded' = yielded \o r.chunks
          /\ carry_over' = r.current_chunk
          /\ segment_start' = segment_start + segment_size
    /\ UNCHANGED <<chPc, chArgs>>
    /\ UNCHANGED notChunkVars

\* After the loop: the carried sentences are yielded as the final chunk.
yield_final_chunk ==
    /\ chPc = "segments"
    /\ segment_start >= Len(chArgs.text)
    /\ yielded' = IF carry_over # <<>> /\ strip(str_join(carry_over)) # <<>>
                  THEN Append(yielded, str_join(carry_over))
                  ELSE yielded
    /\ chPc' = "done"
    /\ UNCHANGED <<chArgs, segment_start, carry_over>>
    /\ UNCHANGED notChunkVars

ChunkNext ==
    \/ \E text \in Texts, max_chunk_size \in 1..MaxChunkSize, overlap \in 0..MaxOverlap :
          chunk_text_streaming(text, max_chunk_size, overlap)
    \/ process_next_segment
    \/ yield_final_chunk

SpecChunk == Init /\ [][ChunkNext]_vars

\* Rows the embeddings table may hold when one more ingestion is started.
MaxEmbeddingRows == 2

\* The call of create_embeddings_optimized has ended (returned or raised) and its
\* caller is free to call it again, for the same or another presentation: the
\* locals of the ended call are gone, the committed rows stay.
next_ingestion ==
    /\ ingPc \in {"returned", "raised"}
    /\ Len(embeddingRows) < MaxEmbeddingRows
    /\ ingPc' = "idle"
    /\ ingArgs' = None
    /\ next_chunk_index' = 0
    /\ chunk_batch' = <<>>
    /\ embTasks' = <<>>
    /\ embedding_records' = <<>>
    /\ total_embeddings' = 0
    /\ UNCHANGED embeddingRows
    /\ UNCHANGED notEmbVars

\* Ingestions one after the other, of files of one or two chunks.
ReingestNext ==
    \/ \E n \in 1..2, presentation_id \in 1..2, bs \in 1..MaxBatchSize :
          create_embeddings_optimized(n, presentation_id, bs, 1000, MaxConcurrent, TRUE, TRUE)
    \/ next_batch
    \/ \E i \in 1..MaxBatchSize : semaphore_acquire(i)
    \/ \E i \in 1..MaxBatchSize : embeddings_create_returns(i)
    \/ \E i \in 1..MaxBatchSize : embeddings_create_raises(i)
    \/ \E i \in 1..MaxBatchSize : sleep_ends(i)
    \/ gather_results
    \/ \E okCommits \in 0..MaxBatchSize : insert_embeddings_batch(okCommits)
    \/ next_ingestion

SpecReingest == Init /\ [][ReingestNext]_vars

\* ------------------------------------------------------ similarity search
\* Rows of presentation_embeddings the search runs over, the largest top_k, and
\* the presentation ids in use.
MaxSearchRows == 3
MaxTopK == 2
MaxSearchPresentations == 2

\* Cosine distances in hundredths: Scale stands for 1.0.
Scale == 100
Distances == {15, 50}

\* `1 - distance`, were the distance itself reported.
similarity_is_distance(distance) == distance

\* "similarity": 1 - distance
similarity(distance) == Scale - distance

\* The tables the search runs over: row id -> the row's presentation, its
\* chunk_index and func.cosine_distance(embedding, query_embedding).
SearchTables ==
    UNION {[1..n -> [presentation_id : 1..MaxSearchPresentations,
                     chunk_index : {0},
                     distance : Distances]] : n \in 0..MaxSearchRows}

\* chunk_index follows the row's place in the table.
Indexed(table) == [i \in 1..Len(table) |-> [table[i] EXCEPT !.chunk_index = i - 1]]

\* The query without its filter: the rows of every presentation.
filter_nothing(table, presentation_id) == 1..Len(table)

\* .filter(PresentationEmbedding.presentation_id == presentation_id)
filter_presentation(table, presentation_id) ==
    {i \in 1..Len(table) : table[i].presentation_id = presentation_id}

\* .order_by('distance').limit(top_k): the row ids one execution may return, in
\* order; rows at the same distance come in an order the database picks.
ordered_limited(table, ids, top_k) ==
    LET size == IF Cardinality(ids) < top_k THEN Cardinality(ids) ELSE top_k
    IN {r \in [1..size -> ids] :
          /\ \A a, b \in 1..size : a < b => r[a] # r[b]
          /\ \A a, b \in 1..size : a < b => table[r[a]].distance <= table[r[b]].distance
          /\ \A i \in ids : (\A a \in 1..size : r[a] # i)
                => \A a \in 1..size : table[r[a]].distance <= table[i].distance}

\* The "Format results" loop
format_results(table, r, presentation_id) ==
    [a \in 1..Len(r) |->
        [row |-> r[a],
         similarity |-> similarity(table[r[a]].distance),
         chunk_index |-> table[r[a]].chunk_index,
         presentation_id |-> presentation_id]]

\* get_similar_chunks(query, presentation_id, db, top_k). presentationFound: what
\* the lookup of the presentation gives; apiOk: whether client.embeddings.create
\* returns.
get_similar_chunks(presentation_id, top_k, table0, presentationFound, apiOk) ==
    /\ call = None
    /\ LET table == Indexed(table0) IN
       /\ call' = [fn |-> "get_similar_chunks", presentation_id |-> presentation_id,
                   top_k |-> top_k, table |-> table, found |-> presentationFound]
       /\ IF ~presentationFound
          THEN ret' = [raised |-> "ValueError: Presentation not found", value |-> <<>>,
                       embeddings_create |-> 0]
          ELSE IF ~apiOk
          THEN ret' = [raised |-> "embeddings.create failed", value |-> <<>>,
                       embeddings_create |-> 1]
          ELSE \E r \in ordered_limited(table, filter_presentation(table, presentation_id), top_k) :
                  ret' = [raised |-> "", value |-> format_results(table, r, presentation_id),
                          embeddings_create |-> 1]
    /\ UNCHANGED notCallVars

SearchNext ==
    /\ call = None
    /\ \E presentation_id \in 1..MaxSearchPresentations, top_k \in 0..MaxTopK,
          table0 \in SearchTables, presentationFound \in BOOLEAN, apiOk \in BOOLEAN :
             get_similar_chunks(presentation_id, top_k, table0, presentationFound, apiOk)

SpecSearch == Init /\ [][SearchNext]_vars

\* ------------------------------------------------------------ chat agents
\* _route_to_agent: research_keywords, analysis_keywords
research_keywords ==
    <<<<"r", "e", "s", "e", "a", "r", "c", "h">>,
      <<"t", "r", "e", "n", "d", "s">>,
      <<"m", "a", "r", "k", "e", "t">>,
      <<"c", "o", "m", "p", "e", "t", "i", "t", "o", "r">>,
      <<"i", "n", "d", "u", "s", "t", "r", "y">>,
      <<"b", "e", "n", "c", "h", "m", "a", "r", "k">>,
      <<"b", "e", "s", "t", " ", "p", "r", "a", "c", "t", "i", "c", "e", "s">>,
      <<"c", "o", "m", "p", "a", "r", "i", "s", "o", "n">>,
      <<"e", "x", "t", "e", "r", "n", "a", "l">>>>

analysis_keywords ==
    <<<<"a", "n", "a", "l", "y", "z", "e">>,
      <<"i", "n", "s", "i", "g", "h", "t", "s">>,
      <<"s", "t", "r", "a", "t", "e", "g", "y">>,
      <<"r", "e", "c", "o", "m", "m", "e", "n", "d">>,
      <<"i", "m", "p", "r", "o", "v", "e">>,
      <<"s", "t", "r", "a", "t", "e", "g", "i", "c">>,
      <<"a", "s", "s", "e", "s", "s", "m", "e", "n", "t">>,
      <<"e", "v", "a", "l", "u", "a", "t", "i", "o", "n">>,
      <<"d", "e", "e", "p", " ", "d", "i", "v", "e">>>>

\* Messages that hold no keyword (one of them a keyword without its blank, one
\* with two blanks), and messages that hold one inside a longer word or in
\* another case.
PlainMessages ==
    {<<"h", "e", "l", "l", "o">>,
     <<"w", "h", "a", "t", " ", "i", "s", " ", "o", "n", " ", "s", "l", "i", "d", "e", " ", "t", "w", "o">>,
     <<>>,
     <<"d", "e", "e", "p", "d", "i", "v", "e">>,
     <<"b", "e", "s", "t", " ", " ", "p", "r", "a", "c", "t", "i", "c", "e", "s">>,
     <<"s", "t", "r", "a", "t", "e", "g">>,
     <<"s", "u", "m", "m", "a", "r", "y", " ", "o", "f", " ", "s", "a", "l", "e", "s">>,
     <<"m", "a", "r", "k", "e", "t", "i", "n", "g", " ", "p", "l", "a", "n">>,
     <<"I", "n", "d", "u", "s", "t", "r", "y">>}

\* str.upper(), to write a keyword in capitals
UpperChar(c) ==
    IF \E i \in 1..Len(LowerLetters) : LowerLetters[i] = c
    THEN UpperLetters[CHOOSE i \in 1..Len(LowerLetters) : LowerLetters[i] = c]
    ELSE c

upper(s) == [i \in 1..Len(s) |-> UpperChar(s[i])]

Keywords ==
    {research_keywords[k] : k \in 1..Len(research_keywords)}
        \cup {analysis_keywords[k] : k \in 1..Len(analysis_keywords)}

\* The messages chat() is called with: plain ones, every keyword alone, in
\* capitals, and inside other text, and every pair of keywords in a sentence, the
\* first of them in capitals.
UserMessages ==
    PlainMessages
        \cup Keywords
        \cup {upper(k) : k \in Keywords}
        \cup {<<"x">> \o k \o <<"s">> : k \in Keywords}
        \cup {upper(a) \o <<" ", "o", "r", " ">> \o b : a, b \in Keywords}

\* `keyword in message_lower`
contains(s, keyword) ==
    \E i \in 0..(Len(s) - Len(keyword)) : SubSeq(s, i + 1, i + Len(keyword)) = keyword

\* The routing without `message.lower()`
route_case_sensitive(message) ==
    IF \E k \in 1..Len(research_keywords) : contains(message, research_keywords[k])
    THEN "research_agent"
    ELSE "presentation_analyst"

\* ChatAgent._route_to_agent
route_to_agent(message) ==
    LET message_lower == lower(message) IN
    IF \E k \in 1..Len(research_keywords) : contains(message_lower, research_keywords[k])
    THEN "research_agent"
    ELSE IF \E k \in 1..Len(analysis_keywords) : contains(message_lower, analysis_keywords[k])
    THEN "presentation_analyst"
    ELSE "presentation_analyst"

\* The edges of create_workflow, were analyze left out of the chain
next_node_without_analyze(node) ==
    CASE node = "START" -> "retrieve"
      [] node = "retrieve" -> "generate"
      [] node = "analyze" -> "generate"
      [] node = "generate" -> "END"

\* The edges of create_workflow
next_node(node) ==
    CASE node = "START" -> "retrieve"
      [] node = "retrieve" -> "analyze"
      [] node = "analyze" -> "generate"
      [] node = "generate" -> "END"

HumanMessage(content) == [type |-> "human", content |-> content]
AIMessage(content) == [type |-> "ai", content |-> content]

\* What retrieve_context may give: the documents of the matches, none when the
\* search found nothing or raised (the exception is caught and [] returned).
RetrievedDocs == {<<>>, <<"doc 0">>, <<"doc 0", "doc 1">>}

\* format_context
format_context(docs) ==
    IF docs = <<>> THEN "No relevant context found." ELSE <<"context of", docs>>

\* ChatAgent.chat up to workflow.ainvoke: the agent is chosen, the state built and
\* the compiled graph entered at START. presentation_id 0 stands for a missing id;
\* hasDb: whether a session was passed.
chat(user_message, presentation_id, hasDb) ==
    /\ wfPc = "idle"
    /\ wfAgent' = route_to_agent(user_message)
    /\ wfState' = [messages |-> <<HumanMessage(user_message)>>,
                   query |-> user_message,
                   context |-> "",
                   retrieved_docs |-> <<>>,
                   analysis_type |-> "",
                   presentation_id |-> presentation_id,
                   db_session |-> hasDb]
    /\ wfPc' = next_node("START")
    /\ visited' = <<>>
    /\ llm_calls' = 0
    /\ UNCHANGED <<chat_return, conversation_history>>
    /\ UNCHANGED notAgentVars

\* retrieve_node. Without a presentation id or a session the node returns a context
\* and the key "retrieve_docs", which is no channel of AgentState and is dropped.
retrieve_node(docs) ==
    /\ wfPc = "retrieve"
    /\ IF wfState.presentation_id = 0 \/ ~wfState.db_session
       THEN wfState' = [wfState EXCEPT !.context = " No presentation context available."]
       ELSE wfState' = [wfState EXCEPT !.context = format_context(docs),
                                       !.retrieved_docs = docs]
    /\ visited' = Append(visited, "retrieve")
    /\ wfPc' = next_node("retrieve")
    /\ UNCHANGED <<wfAgent, llm_calls, chat_return, conversation_history>>
    /\ UNCHANGED notAgentVars

\* analyze_node of PresentationAnalyst and of ResearchAgent: of what they return
\* only analysis_type is a channel of AgentState.
analyze_node ==
    /\ wfPc = "analyze"
    /\ wfState' = [wfState EXCEPT !.analysis_type =
                      IF wfAgent = "research_agent" THEN "research_analysis"
                      ELSE "presentation_analysis"]
    /\ visited' = Append(visited, "analyze")
    /\ wfPc' = next_node("analyze")
    /\ UNCHANGED <<wfAgent, llm_calls, chat_return, conversation_history>>
    /\ UNCHANGED notAgentVars

\* generate_node: one call of self.llm.ainvoke; its reply is added to messages by
\* the operator.add reducer, its exception ends the run and chat().
generate_node(llmOk) ==
    /\ wfPc = "generate"
    /\ llm_calls' = llm_calls + 1
    /\ visited' = Append(visited, "generate")
    /\ IF llmOk
       THEN /\ wfState' = [wfState EXCEPT !.messages =
                              @ \o <<AIMessage(<<"reply to", wfState.query, wfState.context>>)>>]
            /\ wfPc' = next_node("generate")
       ELSE /\ wfState' = wfState
            /\ wfPc' = "raised"
    /\ UNCHANGED <<wfAgent, chat_return, conversation_history>>
    /\ UNCHANGED notAgentVars

\* ChatAgent.chat after workflow.ainvoke: the last message's content is logged in
\* conversation_history and returned.
chat_returns ==
    /\ wfPc = "END"
    /\ LET response == wfState.messages[Len(wfState.messages)].content IN
       /\ conversation_history' = Append(conversation_history,
             [user |-> wfState.query, assistant |-> response, timestamp |-> "now"])
       /\ chat_return' = response
    /\ wfPc' = "returned"
    /\ UNCHANGED <<wfAgent, wfState, visited, llm_calls>>
    /\ UNCHANGED notAgentVars

AgentNext ==
    \/ \E user_message \in UserMessages, presentation_id \in 0..1, hasDb \in BOOLEAN :
          chat(user_message, presentation_id, hasDb)
    \/ \E docs \in RetrievedDocs : retrieve_node(docs)
    \/ analyze_node
    \/ \E llmOk \in BOOLEAN : generate_node(llmOk)
    \/ chat_returns

SpecAgent == Init /\ [][AgentNext]_vars

\* The runs of the workflow for the plain messages.
WorkflowNext ==
    \/ \E user_message \in PlainMessages, presentation_id \in 0..1, hasDb \in BOOLEAN :
          chat(user_message, presentation_id, hasDb)
    \/ \E docs \in RetrievedDocs : retrieve_node(docs)
    \/ analyze_node
    \/ \E llmOk \in BOOLEAN : generate_node(llmOk)
    \/ chat_returns

\* The graph runner runs the node that is due; an awaited call returns or raises.
SpecWorkflow == Init /\ [][WorkflowNext]_vars /\ WF_vars(WorkflowNext)

\* --------------------------------------------------- intent classification
\* The labels of `intent in ["analysis", "research", "general"]`
Str_analysis == <<"a", "n", "a", "l", "y", "s", "i", "s">>
Str_research == <<"r", "e", "s", "e", "a", "r", "c", "h">>
Str_general == <<"g", "e", "n", "e", "r", "a", "l">>
IntentLabels == {Str_analysis, Str_research, Str_general}

\* What the completion may answer, before and after it blanks or a newline.
ReplyBodies ==
    {<<"a", "n", "a", "l", "y", "s", "i", "s">>,
     <<"r", "e", "s", "e", "a", "r", "c", "h">>,
     <<"g", "e", "n", "e", "r", "a", "l">>,
     <<"A", "n", "a", "l", "y", "s", "i", "s">>,
     <<"R", "E", "S", "E", "A", "R", "C", "H">>,
     <<"G", "e", "n", "e", "r", "a", "l">>,
     <<"a", "n", "a", "l", "y", "s", "i", "s", ".">>,
     <<"a", "n", "a", "l", "y", "s", "i", "s", "/", "r", "e", "s", "e", "a", "r", "c", "h">>,
     <<>>,
     <<"t", "h", "e", " ", "i", "n", "t", "e", "n", "t", " ", "i", "s", " ", "a", "n", "a", "l", "y", "s", "i", "s">>,
     <<"u", "n", "k", "n", "o", "w", "n">>}

ReplyPadding == {<<>>, <<" ">>, <<"\n">>}

\* The outcomes of client.chat.completions.create: a reply with text content, a
\* reply whose content is None, an exception.
IntentReplies ==
    {[kind |-> "content", content |-> pre \o body \o post] :
        pre \in ReplyPadding, body \in ReplyBodies, post \in ReplyPadding}
    \cup {[kind |-> "none", content |-> <<>>], [kind |-> "raises", content |-> <<>>]}

\* The last lines of the try block without their membership test.
intent_of_reply_unchecked(reply) == strip(lower(reply.content))

\* _analyze_intent from the completion's outcome on: the stripped, lower-cased
\* content if it is a label, else "general"; an exception (of the call, or of
\* .strip() on a None content) is caught and gives "general".
intent_of_reply(reply) ==
    IF reply.kind # "content" THEN Str_general
    ELSE LET intent == strip(lower(reply.content)) IN
         IF intent \in IntentLabels THEN intent ELSE Str_general

\* generate_response, steps 4 and 5: the intent is determined and the request
\* handed to the handler of that intent.
analyze_intent(reply) ==
    /\ call = None
    /\ call' = [fn |-> "_analyze_intent", reply |-> reply]
    /\ LET intent == intent_of_reply(reply) IN
       ret' = [raised |-> "", value |-> intent,
               handler |-> IF intent = Str_analysis THEN "_handle_analysis_request"
                           ELSE IF intent = Str_research THEN "_handle_research_request"
                           ELSE "_handle_general_request"]
    /\ UNCHANGED notCallVars

IntentNext ==
    /\ call = None
    /\ \E reply \in IntentReplies : analyze_intent(reply)

SpecIntent == Init /\ [][IntentNext]_vars

\* ------------------------------------------------- chat response service
\* BaseAgent, PresentationAnalyst and ResearchAgent define retrieve_context,
\* format_context, create_workflow and the three node methods; none of them
\* defines `process`, so `self.presentation_analyst.process` raises
\* AttributeError.
AgentHasProcess == FALSE

\* top_k of the service's search is max_context_chunks; the lists it may get.
MaxContextChunks == 2
SimilarChunks ==
    UNION {[1..n -> [chunk_index : 0..(MaxContextChunks - 1)]] : n \in 0..MaxContextChunks}

\* What an agent's process() could hand back: with or without a "response"
\* and a "confidence" key. Confidence is written in tenths.
ProcessResults ==
    [has_response : BOOLEAN, has_confidence : BOOLEAN, response : {"agent text"}, confidence : {6}]

\* [chunk["chunk_index"] for chunk in similar_chunks]
sources_of(similar_chunks) == [i \in 1..Len(similar_chunks) |-> similar_chunks[i].chunk_index]

\* result.get(key, default) for the two keys the handlers read
handler_result(result, type, default_confidence, similar_chunks) ==
    [response |-> IF result.has_response THEN result.response ELSE "",
     type |-> type,
     confidence |-> IF result.has_confidence THEN result.confidence ELSE default_confidence,
     sources |-> sources_of(similar_chunks)]

\* _handle_analysis_request and _handle_research_request: the outcomes of the
\* handler, as [raised, value] records.
handle_agent_request(type, default_confidence, similar_chunks) ==
    IF AgentHasProcess
    THEN {[raised |-> "", value |-> handler_result(result, type, default_confidence, similar_chunks)] :
             result \in ProcessResults}
    ELSE {[raised |-> "AttributeError: object has no attribute 'process'", value |-> None]}

\* _handle_general_request: one direct completion call, which returns or raises.
handle_general_request(similar_chunks, llmOk) ==
    IF llmOk
    THEN {[raised |-> "", value |-> [response |-> "completion text", type |-> "general",
                                    confidence |-> 9, sources |-> sources_of(similar_chunks)]]}
    ELSE {[raised |-> "completion failed", value |-> None]}

\* The branch of step 5 taken for an intent
handle_request(intent, similar_chunks, llmOk) ==
    IF intent = Str_analysis THEN handle_agent_request("analysis", 8, similar_chunks)
    ELSE IF intent = Str_research THEN handle_agent_request("research", 7, similar_chunks)
    ELSE handle_general_request(similar_chunks, llmOk)

\* ChatService.generate_response. presentationFound: what the lookup of step 1
\* gives; searchOk and similar_chunks: the outcome of get_similar_chunks; reply:
\* the outcome of the classification call; llmOk: whether the completion of the
\* general handler returns. Any exception is answered by db.rollback() and a
\* new Exception("Failed to generate response: ...").
ChatService_generate_response(presentationFound, searchOk, similar_chunks, reply, llmOk) ==
    /\ call = None
    /\ LET intent == intent_of_reply(reply) IN
       /\ call' = [fn |-> "ChatService.generate_response", found |-> presentationFound,
                   searchOk |-> searchOk, similar_chunks |-> similar_chunks,
                   intent |-> intent, llmOk |-> llmOk]
       /\ IF ~presentationFound \/ ~searchOk
          THEN ret' = [raised |-> "Failed to generate response", value |-> None, rollback |-> 1]
          ELSE \E out \in handle_request(intent, similar_chunks, llmOk) :
                  ret' = IF out.raised # ""
                         THEN [raised |-> "Failed to generate response", value |-> None, rollback |-> 1]
                         ELSE [raised |-> "", value |-> out.value, rollback |-> 0]
    /\ UNCHANGED notCallVars

ServiceNext ==
    /\ call = None
    /\ \E presentationFound \in BOOLEAN, searchOk \in BOOLEAN, similar_chunks \in SimilarChunks,
          reply \in IntentReplies, llmOk \in BOOLEAN :
             ChatService_generate_response(presentationFound, searchOk, similar_chunks, reply, llmOk)

SpecService == Init /\ [][ServiceNext]_vars

\* ------------------------------------------------- conversation context
MaxHistoryRows == 3
MaxHistoryLimit == 2
HistoryUsers == {"u1", "u2"}
HistoryPresentations == 1..2
CreatedAts == 1..2

\* Tables chat_history: row id -> the row's user, presentation and created_at
\* (server_default func.now(); two rows may carry the same time).
HistoryTables ==
    UNION {[1..n -> [user_id : HistoryUsers, presentation_id : HistoryPresentations,
                     created_at : CreatedAts]] : n \in 0..MaxHistoryRows}

\* .where(ChatHistory.user_id == user_id, ChatHistory.presentation_id == presentation_id)
where_user_and_presentation(table, user_id, presentation_id) ==
    {i \in 1..Len(table) : table[i].user_id = user_id /\ table[i].presentation_id = presentation_id}

\* .order_by(ChatHistory.created_at.desc()).offset(skip).limit(limit): the row
\* ids one execution may return, in order; rows of the same created_at come in
\* an order the database picks.
newest_first(table, ids, skip, limit) ==
    LET n == Cardinality(ids)
        size == IF n - skip < 0 THEN 0 ELSE IF n - skip < limit THEN n - skip ELSE limit
    IN {SubSeq(r, skip + 1, skip + size) : r \in {q \in [1..n -> ids] :
          /\ \A a, b \in 1..n : a < b => q[a] # q[b]
          /\ \A a, b \in 1..n : a < b => table[q[a]].created_at >= table[q[b]].created_at}}

\* recent_chats handed on as the query returned them
as_returned(recent_chats) == recent_chats

\* reversed(recent_chats)
reversed(recent_chats) ==
    [i \in 1..Len(recent_chats) |-> recent_chats[Len(recent_chats) + 1 - i]]

\* context.extend([{"role": "user", ...}, {"role": "assistant", ...}]) for each chat
turns_of(chats) ==
    [j \in 1..(2 * Len(chats)) |->
        IF j % 2 = 1 THEN [role |-> "user", content |-> <<"message", chats[(j + 1) \div 2]>>]
        ELSE [role |-> "assistant", content |-> <<"response", chats[j \div 2]>>]]

\* ChatService._get_conversation_context(user_id, presentation_id, db, limit).
\* queryOk: whether db.execute returns; an exception gives the empty context.
get_conversation_context(table, user_id, presentation_id, limit, queryOk) ==
    /\ call = None
    /\ call' = [fn |-> "_get_conversation_context", table |-> table, user_id |-> user_id,
                presentation_id |-> presentation_id, limit |-> limit, queryOk |-> queryOk]
    /\ IF ~queryOk
       THEN ret' = [raised |-> "", value |-> <<>>]
       ELSE \E recent_chats \in newest_first(table,
                    where_user_and_presentation(table, user_id, presentation_id), 0, limit) :
               ret' = [raised |-> "", value |-> turns_of(reversed(recent_chats))]
    /\ UNCHANGED notCallVars

ContextNext ==
    /\ call = None
    /\ \E table \in HistoryTables, user_id \in HistoryUsers, presentation_id \in HistoryPresentations,
          limit \in 0..MaxHistoryLimit, queryOk \in BOOLEAN :
             get_conversation_context(table, user_id, presentation_id, limit, queryOk)

SpecContext == Init /\ [][ContextNext]_vars

\* ------------------------------------------------------ GET /history
\* `stmt = await select(ChatHistory)...limit(limit)`: a Select defines no
\* __await__, so the await raises TypeError before the query is run.
SelectIsAwaitable == FALSE

MaxHistorySkip == 1
MaxHistoryPage == 2

\* The rows of the pair by descending id (stored in commit order), after skip
\* and limit, projected to message and response.
history_page(user_id, presentation_id, skip, limit) ==
    LET ids == {k \in 1..Len(chatHistory) : /\ chatHistory[k].user_id = user_id
                                           /\ chatHistory[k].presentation_id = presentation_id}
        n == Cardinality(ids)
        size == IF n - skip < 0 THEN 0 ELSE IF n - skip < limit THEN n - skip ELSE limit
        desc == CHOOSE q \in [1..n -> ids] : \A a, b \in 1..n : a < b => q[a] > q[b]
    IN [j \in 1..size |-> [message |-> chatHistory[desc[skip + j]].message,
                           response |-> chatHistory[desc[skip + j]].response]]

\* get_chat_history(user_id, presentation_id, skip, limit)
get_chat_history(user_id, presentation_id, skip, limit) ==
    LET req == [user_id |-> user_id, presentation_id |-> presentation_id,
                skip |-> skip, limit |-> limit]
    IN
    /\ IF ~presentation_exists(presentation_id)
       THEN last' = Response("history", req, 404, "Presentation not found", None, NoCalls)
       ELSE IF ~SelectIsAwaitable
       THEN last' = Response("history", req, 500,
                             "object Select can't be used in 'await' expression", None, NoCalls)
       ELSE last' = Response("history", req, 200, "",
                             history_page(user_id, presentation_id, skip, limit), NoCalls)
    /\ UNCHANGED <<ALLOWED_EXTENSIONS, files, dirs, metadata, chunkFiles, started, sent,
                   presentations, chatHistory, tasks>>
    /\ UNCHANGED notApiVars

HistoryNext ==
    \/ \E dbOk \in BOOLEAN :
          upload_presentation(Str_a_pptx, [id |-> 1, size |-> 25], TRUE, dbOk)
    \/ run_task
    \/ \E uid \in UserIds, p \in 1..(MaxPresentations + 1), m \in MessageTexts,
          g \in GenerateOutcomes, commitOk \in BOOLEAN, refreshOk \in BOOLEAN :
          send_message(uid, p, m, g, commitOk, refreshOk)
    \/ \E uid \in UserIds, p \in 1..(MaxPresentations + 1), skip \in 0..MaxHistorySkip,
          limit \in 0..MaxHistoryPage :
          get_chat_history(uid, p, skip, limit)

SpecHistory == Init /\ [][HistoryNext]_vars

\* ------------------------------------------------------ GET /presentations
MaxListSkip == 1
MaxListLimit == 2

\* db.query(Presentation) without order_by: the table's rows in an order the
\* database picks anew for each execution.
query_unordered(rows) ==
    {[j \in 1..Len(rows) |-> rows[q[j]]] :
        q \in {p \in [1..Len(rows) -> 1..Len(rows)] :
                 \A a, b \in 1..Len(rows) : a # b => p[a] # p[b]}}

\* .offset(skip).limit(limit)
offset_limit(rows, skip, limit) ==
    LET n == Len(rows)
        size == IF n - skip < 0 THEN 0 ELSE IF n - skip < limit THEN n - skip ELSE limit
    IN SubSeq(rows, skip + 1, skip + size)

\* get_presentations(skip, limit)
get_presentations(skip, limit) ==
    /\ \E rows \in query_unordered(presentations) :
          last' = Response("list", [skip |-> skip, limit |-> limit], 200, "",
                           offset_limit(rows, skip, limit), NoCalls)
    /\ UNCHANGED <<ALLOWED_EXTENSIONS, files, dirs, metadata, chunkFiles, started, sent,
                   presentations, chatHistory, tasks>>
    /\ UNCHANGED notApiVars

ListNext ==
    \/ \E f \in FileNames, dbOk \in BOOLEAN :
          upload_presentation(f, [id |-> 1, size |-> 25], TRUE, dbOk)
    \/ run_task
    \/ \E skip \in 0..MaxListSkip, limit \in 0..MaxListLimit : get_presentations(skip, limit)

SpecList == Init /\ [][ListNext]_vars

\* ------------------------------------------- concurrent upload-chunk requests
\* What one run of upload_chunk (a well-formed id, the chunk file written) does
\* to the session files. The handler awaits nothing between reading the
\* metadata (line 329) and writing it (line 352), so the event loop runs it
\* from its first line to its last without another handler in between.
upload_chunk_files(fs, upload_id, chunk_index, chunk) ==
    IF upload_id \notin DOMAIN fs.metadata THEN fs
    ELSE LET md == fs.metadata[upload_id] IN
         IF chunk_index < 0 \/ chunk_index >= md.totalChunks THEN fs
         ELSE [chunkFiles |-> Put(fs.chunkFiles, <<upload_id, chunk_index>>, chunk),
               metadata |->
                  IF InList(chunk_index, md.chunks) \/ ~DatetimeModuleHasNow
                  THEN fs.metadata
                  ELSE Put(fs.metadata, upload_id,
                           [f \in DOMAIN md \cup {"lastUpdated"} |->
                               IF f = "chunks" THEN Append(md.chunks, chunk_index)
                               ELSE IF f = "lastUpdated" THEN 1000
                               ELSE md[f]])]

\* The ways the loop can run the handlers of two requests that are in flight at
\* once: one after the other, in either order.
handler_schedules(a, b) == {<<a, b>>, <<b, a>>}

\* The session files after the handlers of a schedule have run
RECURSIVE run_schedule(_, _, _)
run_schedule(fs, upload_id, schedule) ==
    IF schedule = <<>> THEN fs
    ELSE run_schedule(upload_chunk_files(fs, upload_id, Head(schedule), <<1>>),
                      upload_id, Tail(schedule))

\* Sessions are started, chunks sent and files uploaded; the cleanup is
\* requested and the background tasks run.
CleanupNext ==
    \/ \E r \in FullStartRequests, u \in 1..MaxUploads, now \in Times :
          r.filename = Str_a_pptx /\ start_upload(r, u, now)
    \/ \E u \in 1..MaxUploads, i \in 0..(MaxTotalChunks - 1), now \in Times :
          upload_chunk(<<1>>, "canonical", u, i, MaxTotalChunks, TRUE, now)
    \/ upload_presentation(Str_b_PDF, [id |-> 1, size |-> 25], TRUE, TRUE)
    \/ cleanup_abandoned_uploads
    \/ run_task

SpecCleanup == Init /\ [][CleanupNext]_vars

\* A client that keeps to the protocol: start, chunks, finalize, and a look at
\* the session; a direct upload; the background tasks run.
ConsumeNext ==
    \/ \E r \in FullStartRequests, u \in 1..MaxUploads, now \in Times :
          r.filename = Str_a_pptx /\ r.totalChunks > 0 /\ start_upload(r, u, now)
    \/ \E u \in 1..MaxUploads, i \in 0..(MaxTotalChunks - 1), now \in Times :
          upload_chunk(<<1>>, "canonical", u, i, MaxTotalChunks, TRUE, now)
    \/ \E u \in 1..MaxUploads, dbOk \in BOOLEAN : finalize_upload("canonical", u, TRUE, dbOk)
    \/ \E u \in 1..MaxUploads : check_upload(u)
    \/ upload_presentation(Str_b_PDF, [id |-> 1, size |-> 25], TRUE, TRUE)
    \/ run_task

\* The background runner takes up every task that was scheduled.
SpecConsume == Init /\ [][ConsumeNext]_vars /\ WF_vars(run_task)

\* --------------------------------------------------- request-scoped sessions
MaxRequests == 3

\* The handlers that declare `db: Session = Depends(get_db)`
GetDbEndpoints == {"upload", "finalize-upload", "get_presentations", "get_presentation"}

\* How the handler of an endpoint can end: by returning, by an HTTPException,
\* by any other exception.
\*  - upload_presentation turns every exception into an HTTPException;
\*  - finalize_upload ends at one of its first three HTTPExceptions as long as no
\*    session has a metadata.json; behind them it returns, raises the 500s, or
\*    lets an exception that is no SQLAlchemyError through;
\*  - get_presentations and get_presentation catch nothing; the latter raises 404.
handler_exits(endpoint) ==
    IF endpoint = "upload" THEN {"return", "HTTPException"}
    ELSE IF endpoint = "finalize-upload"
    THEN (IF DatetimeModuleHasNow THEN {"return", "HTTPException", "Exception"}
          ELSE {"HTTPException"})
    ELSE IF endpoint = "get_presentations" THEN {"return", "Exception"}
    ELSE {"return", "HTTPException", "Exception"}

\* get_db up to its yield: db = SessionLocal(), handed to the handler
get_db_enter(endpoint) ==
    /\ Len(requests) < MaxRequests
    /\ db_sessions' = Append(db_sessions, [open |-> TRUE, closes |-> 0])
    /\ requests' = Append(requests, [endpoint |-> endpoint, db |-> Len(db_sessions) + 1,
                                      pc |-> "handler", exit |-> "none"])
    /\ UNCHANGED notDbVars

\* The handler of request r ends
handler_exit(r, how) ==
    /\ requests[r].pc = "handler"
    /\ how \in handler_exits(requests[r].endpoint)
    /\ requests' = [requests EXCEPT ![r].pc = "exited", ![r].exit = how]
    /\ UNCHANGED db_sessions
    /\ UNCHANGED notDbVars

\* A get_db written `yield db; db.close()`, without try/finally: the close is
\* skipped when the handler raised.
get_db_exit_without_finally(r) ==
    /\ requests[r].pc = "exited"
    /\ requests' = [requests EXCEPT ![r].pc = "done"]
    /\ db_sessions' = IF requests[r].exit = "return"
                      THEN [db_sessions EXCEPT ![requests[r].db].open = FALSE,
                                               ![requests[r].db].closes = @ + 1]
                      ELSE db_sessions
    /\ UNCHANGED notDbVars

\* get_db after its yield: the framework resumes the generator when the request
\* ends, by a return or by throwing the handler's exception into it; the finally
\* clause runs db.close() either way.
get_db_exit(r) ==
    /\ requests[r].pc = "exited"
    /\ requests' = [requests EXCEPT ![r].pc = "done"]
    /\ db_sessions' = [db_sessions EXCEPT ![requests[r].db].open = FALSE,
                                          ![requests[r].db].closes = @ + 1]
    /\ UNCHANGED notDbVars

\* Requests come in and are served concurrently.
DbNext ==
    \/ \E endpoint \in GetDbEndpoints : get_db_enter(endpoint)
    \/ \E r \in 1..Len(requests), how \in {"return", "HTTPException", "Exception"} : handler_exit(r, how)
    \/ \E r \in 1..Len(requests) : get_db_exit(r)

SpecDb == Init /\ [][DbNext]_vars

\* The session a scheduled embedding step works with: create_embeddings_task
\* makes its own with SessionLocal(); create_embeddings, as finalize_upload
\* schedules it, is handed the db of the request.
task_session(t) ==
    IF t.fn = "create_embeddings_task" THEN "SessionLocal()"
    ELSE IF t.fn = "create_embeddings" THEN "request db"
    ELSE "none"

\* Whether the task closes its session in a finally clause and catches what
\* the embedding step raises: the try/except/finally of create_embeddings_task.
task_has_boundary(t) == t.fn = "create_embeddings_task"

\* ------------------------------------------------- basic chat service
\* services/chat_service.py: the module-level generate_response.

\* Line 40 calls the coroutine function get_similar_chunks (embedding_service.py
\* line 158, "async def") without await: similar_chunks is a coroutine object,
\* the body of get_similar_chunks never runs, and the comprehension of line 48
\* raises TypeError ("'coroutine' object is not iterable").
SimilarChunksIsAwaited == FALSE

\* What the function can return: the stripped completion text. No other return
\* statement exists in the function.
CompletionText == "completion text"

\* generate_response(message, presentation_id, db, max_context_chunks).
\* similar_chunks and searchOk: what get_similar_chunks would give if it ran;
\* llmOk: whether client.chat.completions.create returns. The except clause of
\* line 75 turns every exception into Exception("Failed to generate response: ...").
generate_response(message, presentation_id, similar_chunks, searchOk, llmOk) ==
    /\ call = None
    /\ call' = [fn |-> "generate_response", message |-> message,
                presentation_id |-> presentation_id, similar_chunks |-> similar_chunks,
                searchOk |-> searchOk, llmOk |-> llmOk, get_similar_chunks_calls |-> 1]
    /\ ret' = IF ~SimilarChunksIsAwaited
              THEN [raised |-> "Failed to generate response: 'coroutine' object is not iterable",
                    value |-> None, completion_calls |-> 0]
              ELSE IF ~searchOk
              THEN [raised |-> "Failed to generate response: search failed",
                    value |-> None, completion_calls |-> 0]
              ELSE IF ~llmOk
              THEN [raised |-> "Failed to generate response: completion failed",
                    value |-> None, completion_calls |-> 1]
              ELSE [raised |-> "", value |-> CompletionText, completion_calls |-> 1]
    /\ UNCHANGED notCallVars

BasicNext ==
    /\ call = None
    /\ \E message \in MessageTexts, presentation_id \in 1..MaxPresentations,
          similar_chunks \in SimilarChunks, searchOk \in BOOLEAN, llmOk \in BOOLEAN :
             generate_response(message, presentation_id, similar_chunks, searchOk, llmOk)

SpecBasic == Init /\ [][BasicNext]_vars

\* ------------------------------------------------- referential integrity
\* db/models.py: presentation_embeddings.presentation_id and
\* chat_history.presentation_id are foreign keys to presentations.id.

\* A deleted row leaves a hole in its table: the serial id is not given again.
DeletedPresentation == Presentation(0, <<>>, <<>>, 0)
DeletedChat == ChatHistory(0, "", 0, "", "")

\* Were the relationship declared without a cascade: the embeddings stay.
cascade_embeddings_none(rows, id) == rows

\* The embeddings relationship (cascade="all, delete-orphan"): deleting a
\* Presentation through the session deletes its PresentationEmbedding rows.
cascade_embeddings(rows, id) ==
    LET other(r) == r.presentation_id # id IN SelectSeq(rows, other)

\* ForeignKey("presentations.id", ondelete="CASCADE") of chat_history: the
\* database deletes the chat rows of a deleted presentation.
ondelete_cascade(rows, id) ==
    [k \in 1..Len(rows) |-> IF rows[k].presentation_id = id THEN DeletedChat ELSE rows[k]]

\* session.delete(presentation); session.commit()
delete_presentation(id) ==
    /\ presentation_exists(id)
    /\ presentations' = [k \in 1..Len(presentations) |->
                           IF presentations[k].id = id THEN DeletedPresentation
                           ELSE presentations[k]]
    /\ embeddingRows' = cascade_embeddings(embeddingRows, id)
    /\ chatHistory' = ondelete_cascade(chatHistory, id)
    /\ UNCHANGED <<ALLOWED_EXTENSIONS, files, dirs, metadata, chunkFiles, started, sent,
                   tasks, last>>
    /\ UNCHANGED <<ingPc, ingArgs, next_chunk_index, chunk_batch, embTasks, embedding_records,
                   total_embeddings>>
    /\ UNCHANGED <<chunkVars, callVars, agentVars, dbVars>>

\* create_embeddings_optimized on the database the handlers write: the lookup of
\* lines 44-50 reads the presentations table.
create_embeddings_for(n, presentation_id) ==
    create_embeddings_optimized(n, presentation_id, 1, 1000, 1, TRUE,
                                presentation_exists(presentation_id))

\* insert_embeddings_batch against the foreign key of presentation_embeddings: a
\* commit of rows whose presentation is gone is rejected by the database.
insert_embeddings_batch_fk(okCommits) ==
    /\ ingPc = "inserting"
    /\ presentation_exists(ingArgs.presentation_id) \/ okCommits = 0
    /\ insert_embeddings_batch(okCommits)

\* Uploads, messages, ingestions and deletions on one database.
RefsNext ==
    \/ upload_presentation(Str_a_pptx, [id |-> 1, size |-> 25], TRUE, TRUE)
    \/ \E p \in 1..(MaxPresentations + 1) :
          send_message("test_user", p, "q1", "answer", TRUE, TRUE)
    \/ \E p \in 1..(MaxPresentations + 1) : create_embeddings_for(1, p)
    \/ next_batch
    \/ semaphore_acquire(1)
    \/ embeddings_create_returns(1)
    \/ gather_results
    \/ \E okCommits \in 0..1 : insert_embeddings_batch_fk(okCommits)
    \/ next_ingestion
    \/ \E id \in 1..MaxPresentations : delete_presentation(id)

SpecRefs == Init /\ [][RefsNext]_vars

\* ------------------------------------------------- size and type limits
\* Start requests declaring a file within and above MAX_FILE_SIZE.
SizedStartRequests ==
    [filename : {Str_a_pptx, Str_c_py}, fileSize : {3, MAX_FILE_SIZE + 1}, totalChunks : {1}]

\* len() of a stored file: of the body of a direct upload, or of the bytes
\* finalize_upload assembled.
stored_size(c) == IF "size" \in DOMAIN c THEN c.size ELSE Len(c.bytes)

\* Both ways to a Presentation row, with files within and above the limit.
LimitsNext ==
    \/ \E f \in {Str_a_pptx, Str_c_py}, c \in Contents, dbOk \in BOOLEAN :
          upload_presentation(f, c, TRUE, dbOk)
    \/ \E r \in SizedStartRequests, u \in 1..MaxUploads : start_upload(r, u, 1000)
    \/ \E c \in ChunkData, u \in 1..MaxUploads : upload_chunk(c, "canonical", u, 0, 1, TRUE, 1000)
    \/ \E u \in 1..MaxUploads : finalize_upload("canonical", u, TRUE, TRUE)

SpecLimits == Init /\ [][LimitsNext]_vars

\* ------------------------------------------------- closing a chunk
\* One turn of the loop `for sentence in sentences` of process_text_segment, for
\* a current_chunk built by the turns before it.
MaxChunkSentences == 3

\* Sentences as split_sentences leaves them: stripped, not empty, all but the
\* last of a segment ending in '+'.
SentencePool == {<<"a">>, <<"b", "+">>, <<"c", "c", "+">>}

CurrentChunks == UNION {[1..n -> SentencePool] : n \in 1..MaxChunkSentences}

\* The turn for `sentence`, current_size being the summed length of current_chunk.
pack_sentence(current_chunk, sentence, max_chunk_size, overlap) ==
    /\ call = None
    /\ call' = [fn |-> "pack_sentences", current_chunk |-> current_chunk,
                sentence |-> sentence, max_chunk_size |-> max_chunk_size, overlap |-> overlap]
    /\ ret' = pack_sentences(<<sentence>>, 1, <<>>, current_chunk, total_len(current_chunk),
                             max_chunk_size, overlap)
    /\ UNCHANGED notCallVars

PackNext ==
    /\ call = None
    /\ \E current_chunk \in CurrentChunks, sentence \in SentencePool,
          max_chunk_size \in 1..MaxChunkSize, overlap \in 0..MaxOverlap :
             pack_sentence(current_chunk, sentence, max_chunk_size, overlap)

SpecPack == Init /\ [][PackNext]_vars

\* ------------------------------------------------- the batch stream
\* utils/text_processor.py: process_large_file_in_batches_with_metadata.
MaxPages == 3
MaxPageChunks == 2

\* What extract_text_streaming and chunk_text_streaming give for a file: for each
\* page or slide, in order, the chunks of its text.
PageChunks(p, n) == [k \in 1..n |-> <<"chunk", p, k>>]
FilePages ==
    UNION {{[p \in 1..m |-> PageChunks(p, cnt[p])] : cnt \in [1..m -> 0..MaxPageChunks]} :
              m \in 0..MaxPages}

\* `if len(current_batch) > batch_size`, were the test strict
batch_full_strict(current_batch, batch_size) == Len(current_batch) > batch_size

\* `if len(current_batch) >= batch_size` (line 264)
batch_full(current_batch, batch_size) == Len(current_batch) >= batch_size

\* The two nested loops from chunk k of page p on, and the final yield: the
\* batches the generator yields, in order.
RECURSIVE stream_batches(_, _, _, _, _, _, _)
stream_batches(pages, p, k, current_batch, chunk_index, batch_size, presentation_id) ==
    IF p > Len(pages)
    THEN IF current_batch # <<>> THEN <<current_batch>> ELSE <<>>
    ELSE IF k > Len(pages[p])
    THEN stream_batches(pages, p + 1, 1, current_batch, chunk_index, batch_size, presentation_id)
    ELSE LET data == [text |-> pages[p][k], chunk_index |-> chunk_index,
                      presentation_id |-> presentation_id]
             batch == Append(current_batch, data)
         IN IF batch_full(batch, batch_size)
            THEN <<batch>> \o stream_batches(pages, p, k + 1, <<>>, chunk_index + 1,
                                             batch_size, presentation_id)
            ELSE stream_batches(pages, p, k + 1, batch, chunk_index + 1,
                                batch_size, presentation_id)

\* The generator run to its end: current_batch = [] and chunk_index = 0 at start.
process_large_file_in_batches_with_metadata(pages, presentation_id, batch_size) ==
    /\ call = None
    /\ call' = [fn |-> "process_large_file_in_batches_with_metadata", pages |-> pages,
                presentation_id |-> presentation_id, batch_size |-> batch_size]
    /\ ret' = stream_batches(pages, 1, 1, <<>>, 0, batch_size, presentation_id)
    /\ UNCHANGED notCallVars

StreamNext ==
    /\ call = None
    /\ \E pages \in FilePages, presentation_id \in 1..MaxPresentations,
          batch_size \in 1..MaxBatchSize :
             process_large_file_in_batches_with_metadata(pages, presentation_id, batch_size)

SpecStream == Init /\ [][StreamNext]_vars

\* ------------------------------------------------- the retrieve step
\* agents/base.py: retrieve_context and retrieve_node with the search they call.

\* The Documents built from the chunks a search returned
documents_of(similar_chunks) ==
    [i \in 1..Len(similar_chunks) |-> <<"doc", similar_chunks[i].chunk_index>>]

\* Were retrieve_context without its except clause's `return []`
retrieve_context_keeping_docs(searchOk, similar_chunks) == documents_of(similar_chunks)

\* retrieve_context: the documents of the chunks found, or [] when anything in
\* the try block raised. searchOk: whether get_similar_chunks returns.
retrieve_context(searchOk, similar_chunks) ==
    IF searchOk THEN documents_of(similar_chunks) ELSE <<>>

\* retrieve_node with its call of retrieve_context, which calls
\* get_similar_chunks once; call and ret record that call and how the search
\* ended. Without a presentation id or a session the node returns before it.
retrieve_node_searching(searchOk, similar_chunks) ==
    /\ wfPc = "retrieve"
    /\ IF wfState.presentation_id = 0 \/ ~wfState.db_session
       THEN /\ wfState' = [wfState EXCEPT !.context = " No presentation context available."]
            /\ UNCHANGED callVars
       ELSE LET docs == retrieve_context(searchOk, similar_chunks) IN
            /\ call' = [fn |-> "retrieve_context", query |-> wfState.query,
                        presentation_id |-> wfState.presentation_id, search_calls |-> 1]
            /\ ret' = IF searchOk THEN [raised |-> "", value |-> similar_chunks]
                      ELSE [raised |-> "search failed", value |-> None]
            /\ wfState' = [wfState EXCEPT !.context = format_context(docs),
                                          !.retrieved_docs = docs]
    /\ visited' = Append(visited, "retrieve")
    /\ wfPc' = next_node("retrieve")
    /\ UNCHANGED <<wfAgent, llm_calls, chat_return, conversation_history>>
    /\ UNCHANGED <<apiVars, embVars, chunkVars, dbVars>>

RetrieveNext ==
    \/ \E user_message \in PlainMessages, presentation_id \in 0..1, hasDb \in BOOLEAN :
          chat(user_message, presentation_id, hasDb)
    \/ \E searchOk \in BOOLEAN, similar_chunks \in SimilarChunks :
          retrieve_node_searching(searchOk, similar_chunks)
    \/ analyze_node
    \/ \E llmOk \in BOOLEAN : generate_node(llmOk)
    \/ chat_returns

\* The graph runner runs the node that is due; an awaited call returns or raises.
SpecRetrieve == Init /\ [][RetrieveNext]_vars /\ WF_vars(RetrieveNext)

\* ================================================================ claims
\* The step just taken handled a request of the named endpoint.
Handled(op) == last'.n # last.n /\ last'.op = op

\* The file type an extension or a configured entry names, with or without its dot.
TypeOf(e) == IF e # <<>> /\ e[1] = "." THEN Tail(e) ELSE e

\* The ids of sessions a start-upload request declared and the chunks sent for them.
DeclaredRange(u) == 0..(started[u].totalChunks - 1)

LastIsFor(op, u) ==
    /\ last.op = op
    /\ last.req.idform = "canonical"
    /\ last.req.upload_id = u

\* C1: when finalize-upload is asked for a session that start-upload declared and
\* for which every index of the declared range was sent, it answers 200 with a new
\* Presentation row and the assembled file is the stored chunks concatenated in
\* ascending index order (unless the disk or the database failed).
C1_FinalizeOfCompleteSessionSucceeds ==
    \A u \in DOMAIN started :
        (LastIsFor("finalize-upload", u) /\ sent[u] = DeclaredRange(u))
        => \/ last.detail \in {"Failed to assemble file", "Database error"}
           \/ /\ last.status = 200
              /\ presentations # <<>>
              /\ last.body = presentations[Len(presentations)]
              /\ last.body.file_path \in DOMAIN files
              /\ files[last.body.file_path].bytes =
                    concat_chunks(u, [k \in 1..started[u].totalChunks |-> k - 1])

\* C2: finalize-upload for a declared session that lacks some index of its range
\* answers 400 'Incomplete upload' naming at least one missing index.
C2_FinalizeOfIncompleteSessionSaysIncomplete ==
    \A u \in DOMAIN started :
        (LastIsFor("finalize-upload", u) /\ sent[u] # DeclaredRange(u))
        => /\ last.status = 400
           /\ last.detail = "Incomplete upload"
           /\ last.body.missing # {}
           /\ last.body.missing \subseteq DeclaredRange(u) \ sent[u]

C4_ReceivedListWellFormedAndCompleteIffFull ==
    /\ \A u \in DOMAIN metadata :
          LET md == metadata[u] IN
          /\ ListSet(md.chunks) \subseteq RangeSet(md.totalChunks)
          /\ Cardinality(ListSet(md.chunks)) = Len(md.chunks)
          /\ Len(md.chunks) <= md.totalChunks
    /\ \A u \in DOMAIN started :
          LastIsFor("finalize-upload", u)
          => ((last.status = 200 \/ last.detail \in {"Failed to assemble file", "Database error"})
              <=> sent[u] = DeclaredRange(u))

\* C5: an upload whose file type is one of the configured types and whose size is
\* within the maximum is answered 200 and adds exactly one Presentation row with the
\* filename, the saved path, the byte length, 'default_user' and empty metadata,
\* with one add and one commit (unless the disk or the database failed).
C5_AllowedUploadCreatesOneRow ==
    [][ ( /\ Handled("upload")
          /\ TypeOf(lower(splitext_ext(last'.req.filename)))
                \in {TypeOf(a) : a \in ALLOWED_EXTENSIONS}
          /\ splitext_ext(last'.req.filename) # <<>>
          /\ last'.req.content.size <= MAX_FILE_SIZE
          /\ last'.detail \notin {"Could not save file", "Database error"} )
        => /\ last'.status = 200
           /\ presentations' = Append(presentations,
                 [id |-> Len(presentations) + 1,
                  filename |-> last'.req.filename,
                  file_path |-> join(UPLOAD_DIR, last'.req.filename),
                  file_size |-> last'.req.content.size,
                  user_id |-> "default_user",
                  presentation_metadata |-> <<>>])
           /\ last'.calls.add = 1 /\ last'.calls.commit = 1
      ]_vars

\* C6: an upload whose extension is not in the configured list, or whose content
\* is larger than the maximum, is answered 400 ('File type not allowed' for the
\* extension, 'File too large' for the size), and that step writes no file, creates
\* no row, schedules no task and touches no database session.
C6_RejectedUploadChangesNothing ==
    [][ ( /\ Handled("upload")
          /\ \/ lower(splitext_ext(last'.req.filename)) \notin ALLOWED_EXTENSIONS
             \/ last'.req.content.size > MAX_FILE_SIZE )
        => /\ last'.status = 400
           /\ last'.detail =
                 IF lower(splitext_ext(last'.req.filename)) \notin ALLOWED_EXTENSIONS
                 THEN "File type not allowed" ELSE "File too large"
           /\ last'.calls = NoCalls
           /\ UNCHANGED <<files, presentations, tasks>>
      ]_vars

\* An upload was refused for its size while the table and the directory hold an
\* earlier upload.
C6_Witness ==
    /\ last.op = "upload"
    /\ last.status = 400
    /\ last.detail = "File too large"
    /\ presentations # <<>>
    /\ files # <<>>

\* C7: a message for a presentation id that no row has is answered 404, without a
\* call of the response generation, without add or commit, and chat_history keeps
\* its rows.
C7_MessageForMissingPresentation ==
    [][ ( /\ Handled("message")
          /\ \A k \in 1..Len(presentations) :
                presentations[k].id # last'.req.presentation_id )
        => /\ last'.status = 404
           /\ last'.calls = NoCalls
           /\ chatHistory' = chatHistory
      ]_vars

\* A 404 was answered while both tables hold rows.
C7_Witness ==
    /\ last.op = "message"
    /\ last.status = 404
    /\ presentations # <<>>
    /\ chatHistory # <<>>

\* C8: a message step adds a chat_history row exactly when generation and the
\* commit succeeded, and then exactly one, holding the request's content and the
\* generated text; a 200 answer returns that message and response; when generation
\* or the commit raises, the session is rolled back, the answer is 500 and no row
\* is added.
C8_RowIffGenerated ==
    [][ Handled("message")
        => /\ (chatHistory' # chatHistory)
                <=> ( /\ last'.calls.generate = 1
                      /\ last'.detail \notin {"Failed to generate response", "commit failed"} )
           /\ (chatHistory' # chatHistory)
                => /\ Len(chatHistory') = Len(chatHistory) + 1
                   /\ SubSeq(chatHistory', 1, Len(chatHistory)) = chatHistory
                   /\ chatHistory'[Len(chatHistory')].message = last'.req.content
                   /\ chatHistory'[Len(chatHistory')].user_id = last'.req.user_id
                   /\ chatHistory'[Len(chatHistory')].presentation_id = last'.req.presentation_id
                   /\ chatHistory'[Len(chatHistory')].response \in GenerateOutcomes \ {"RAISE"}
           /\ (last'.status = 200)
                => /\ chatHistory' # chatHistory
                   /\ last'.body.message = last'.req.content
                   /\ last'.body.response = chatHistory'[Len(chatHistory')].response
                   /\ last'.calls.commit = 1
           /\ (last'.detail \in {"Failed to generate response", "commit failed"})
                => /\ last'.status = 500
                   /\ last'.calls.rollback >= 1
                   /\ chatHistory' = chatHistory
      ]_vars

\* A generation failed after an earlier message of the same presentation was saved.
C8_Witness ==
    /\ last.op = "message"
    /\ last.status = 500
    /\ last.detail = "Failed to generate response"
    /\ chatHistory # <<>>
    /\ chatHistory[Len(chatHistory)].presentation_id = last.req.presentation_id


\* The positions of the current batch whose task ended in an exception.
FailedPositions == {k \in DOMAIN embTasks : embTasks[k].st = "raised"}

\* C9: when create_embeddings_batch ends on a batch of N chunks of which k failed
\* after their retries, it raises nothing and returns exactly the records of the
\* N-k other chunks, in the order of the batch; and the ingestion that stored those
\* records goes on to ask for the next batch with its total advanced by N-k.
C9_FailedChunksAreSkippedAndIngestionContinues ==
    /\ [][ (ingPc = "gathering" /\ ingPc' # "gathering")
           => /\ ingPc' = "inserting"
              /\ Len(embedding_records') = Len(chunk_batch) - Cardinality(FailedPositions)
              /\ {embedding_records'[j] : j \in 1..Len(embedding_records')} =
                    {PresentationEmbedding(chunk_batch[k]) :
                        k \in (1..Len(chunk_batch)) \ FailedPositions}
              /\ \A a, b \in 1..Len(embedding_records') :
                    a < b => embedding_records'[a].chunk_index < embedding_records'[b].chunk_index
         ]_vars
    /\ [][ (ingPc = "inserting" /\ embeddingRows' = embeddingRows \o embedding_records)
           => /\ ingPc' = "streaming"
              /\ total_embeddings' = total_embeddings + Len(embedding_records)
         ]_vars

\* A later batch is being embedded after an earlier batch lost one chunk and kept
\* another.
C9_Witness ==
    /\ ingPc = "gathering"
    /\ next_chunk_index > Len(chunk_batch)
    /\ total_embeddings > 0
    /\ total_embeddings < next_chunk_index - Len(chunk_batch)
    /\ Len(embeddingRows) = total_embeddings

\* What each task of the current batch has done: its calls, and the whole seconds
\* of each of its sleeps (1, then 2).
C10_CallsAndSleeps ==
    \A i \in DOMAIN embTasks :
        LET t == embTasks[i] IN
        /\ t.calls <= 3
        /\ t.st # "returned None"
        /\ t.st = "waiting" => (t.calls = 0 /\ t.slept = <<>>)
        /\ t.st \in {"calling", "returned"} => Len(t.slept) = t.calls - 1
        /\ t.st = "sleeping" => (Len(t.slept) = t.calls /\ t.calls < 3)
        /\ t.st = "raised" => (t.calls = 3 /\ Len(t.slept) = 2)
        /\ \A j \in 1..Len(t.slept) : t.slept[j] = Pow2(j - 1)

\* C10: for one chunk the API is called at most 3 times; a call that succeeds ends
\* the function with the record and no later call or sleep; every failed call but
\* the third is followed by one sleep before the next call; the third failure is
\* raised with no sleep after it; and a call that has begun always ends with a
\* record or an exception.
C10_AtMostThreeCallsThenRecordOrException ==
    /\ []C10_CallsAndSleeps
    /\ [][ \A i \in DOMAIN embTasks :
              (embTasks[i].st \in {"returned", "raised"} /\ next_chunk_index' = next_chunk_index)
              => (i \in DOMAIN embTasks' /\ embTasks'[i] = embTasks[i]) ]_vars
    /\ \A i \in 1..MaxBatchSize :
          (i \in DOMAIN embTasks /\ embTasks[i].st = "calling")
          ~> (i \in DOMAIN embTasks /\ embTasks[i].st \in {"returned", "raised"})

\* One chunk of a batch was embedded at its third call after two sleeps while
\* another chunk's third call failed.
C10_Witness ==
    /\ ingPc = "gathering"
    /\ \E i \in DOMAIN embTasks :
          /\ embTasks[i].st = "returned"
          /\ embTasks[i].calls = 3
          /\ embTasks[i].slept = <<1, 2>>
    /\ \E i \in DOMAIN embTasks :
          /\ embTasks[i].st = "raised"
          /\ embTasks[i].slept = <<1, 2>>

\* The tasks of the current batch that have begun create_single_embedding_optimized
\* and not ended it: inside an API call, or in the backoff sleep between two calls.
InFlight == {k \in DOMAIN embTasks : embTasks[k].st \in {"calling", "sleeping"}}

\* C11: at no time are more than max_concurrent chunks of the ingestion between the
\* start of their first API call and the end of their last one, the backoff sleeps
\* included; no task is unfinished outside the gathering of its batch, and the next
\* batch's tasks are created only when every task of the current batch has ended.
C11_AtMostMaxConcurrentInFlightAndBatchesInTurn ==
    /\ [](ingPc = "gathering" => Cardinality(InFlight) <= ingArgs.max_concurrent)
    /\ [](ingPc # "gathering" =>
             \A k \in DOMAIN embTasks : embTasks[k].st \in {"returned", "raised"})
    /\ [][ next_chunk_index' # next_chunk_index
           => \A k \in DOMAIN embTasks : embTasks[k].st \in {"returned", "raised"} ]_vars
    /\ [][ \A k \in DOMAIN embTasks' :
              (embTasks'[k].calls = 1 /\ (k \notin DOMAIN embTasks \/ embTasks[k].calls = 0))
              => ingPc = "gathering" /\ embTasks[k].st = "waiting" ]_vars

\* The semaphore is full with a task in its backoff sleep while another chunk of
\* the batch waits for a permit.
C11_Witness ==
    /\ ingPc = "gathering"
    /\ Cardinality(InFlight) = ingArgs.max_concurrent
    /\ \E k \in DOMAIN embTasks : embTasks[k].st = "sleeping"
    /\ \E k \in DOMAIN embTasks : embTasks[k].st = "waiting"

\* The words of a text: its maximal runs of characters that are not whitespace.
RECURSIVE WordEnd(_, _)
WordEnd(s, i) == IF i <= Len(s) /\ s[i] \notin Whitespace THEN WordEnd(s, i + 1) ELSE i - 1

RECURSIVE WordsFrom(_, _)
WordsFrom(s, i) ==
    IF i > Len(s) THEN <<>>
    ELSE IF s[i] \in Whitespace THEN WordsFrom(s, i + 1)
    ELSE LET e == WordEnd(s, i)
         IN <<SubSeq(s, i, e)>> \o WordsFrom(s, e + 1)

Words(s) == WordsFrom(s, 1)

RECURSIVE Flatten(_)
Flatten(list) == IF list = <<>> THEN <<>> ELSE list[1] \o Flatten(Tail(list))

\* C12: no chunk the generator yields, the final one included, is longer than
\* max_chunk_size characters.
C12_NoChunkLongerThanMax ==
    chPc # "idle" =>
        \A c \in 1..Len(yielded) : Len(yielded[c]) <= chArgs.max_chunk_size

\* C13: when the generator is exhausted, the chunks hold exactly the words of the
\* input, none rewritten, and without overlap the words of the chunks taken in
\* order are the input's word sequence.
C13_ChunksReproduceTheWords ==
    chPc = "done" =>
        LET chunkWords == Flatten([c \in 1..Len(yielded) |-> Words(yielded[c])])
            textWords == Words(chArgs.text)
        IN /\ {chunkWords[k] : k \in 1..Len(chunkWords)}
                 = {textWords[k] : k \in 1..Len(textWords)}
           /\ chArgs.overlap = 0 => chunkWords = textWords

\* C14: the empty text yields no chunk, and a text shorter than max_chunk_size that
\* holds a word yields exactly one chunk, equal to the input up to its whitespace.
C14_EmptyAndShortTexts ==
    chPc = "done" =>
        /\ chArgs.text = <<>> => yielded = <<>>
        /\ (Len(chArgs.text) < chArgs.max_chunk_size /\ Words(chArgs.text) # <<>>)
              => /\ Len(yielded) = 1
                 /\ Words(yielded[1]) = Words(chArgs.text)

\* C15: in every state no two rows of presentation_embeddings of the same
\* presentation have the same chunk_index, and the rows of one presentation, in
\* the order they were inserted, have increasing chunk_index.
C15_ChunkIndexUniquePerPresentation ==
    \A i, j \in 1..Len(embeddingRows) :
        (i < j /\ embeddingRows[i].presentation_id = embeddingRows[j].presentation_id)
        => embeddingRows[i].chunk_index < embeddingRows[j].chunk_index

\* C16: every match get_similar_chunks returns reports as its similarity 1 minus
\* the cosine distance stored for its row (distance 0.15 gives 0.85).
C16_SimilarityIsOneMinusDistance ==
    (call # None /\ call.fn = "get_similar_chunks" /\ ret.raised = "") =>
        \A a \in 1..Len(ret.value) :
            /\ ret.value[a].similarity + call.table[ret.value[a].row].distance = 100
            /\ call.table[ret.value[a].row].distance = 15 => ret.value[a].similarity = 85

\* A search returned a match at distance 0.15 and a farther one.
C16_Witness ==
    /\ call # None /\ call.fn = "get_similar_chunks" /\ ret.raised = ""
    /\ Len(ret.value) = 2
    /\ call.table[ret.value[1].row].distance = 15
    /\ ret.value[2].similarity = 50

\* C17: a search for a presentation that was found returns at most top_k matches,
\* all of them rows of that presentation, no row twice, in order of non-decreasing
\* distance (non-increasing similarity), as many as top_k allows, and no row of the
\* presentation left out is nearer than a returned one; a search for a presentation
\* that was not found raises 'not found' without a call of the embeddings API.
C17_NearestTopKOfThePresentation ==
    (call # None /\ call.fn = "get_similar_chunks") =>
        LET own == {i \in 1..Len(call.table) :
                       call.table[i].presentation_id = call.presentation_id}
            got == {ret.value[a].row : a \in 1..Len(ret.value)}
        IN /\ ~call.found => /\ ret.raised = "ValueError: Presentation not found"
                             /\ ret.embeddings_create = 0
           /\ ret.raised = "" =>
                 /\ Len(ret.value) <= call.top_k
                 /\ got \subseteq own
                 /\ Cardinality(got) = Len(ret.value)
                 /\ Len(ret.value) = call.top_k \/ got = own
                 /\ \A a, b \in 1..Len(ret.value) :
                       a < b => /\ call.table[ret.value[a].row].distance
                                      <= call.table[ret.value[b].row].distance
                                /\ ret.value[a].similarity >= ret.value[b].similarity
                 /\ \A i \in own \ got : \A j \in got :
                       call.table[j].distance <= call.table[i].distance

\* A search with top_k = 1 returned the nearest row of its presentation, left out
\* a farther one, and passed over a row of another presentation that is as near.
C17_Witness ==
    /\ call # None /\ call.fn = "get_similar_chunks" /\ ret.raised = ""
    /\ call.top_k = 1 /\ Len(ret.value) = 1
    /\ \E i \in 1..Len(call.table) :
          /\ call.table[i].presentation_id # call.presentation_id
          /\ call.table[i].distance = call.table[ret.value[1].row].distance
    /\ \E i \in 1..Len(call.table) :
          /\ call.table[i].presentation_id = call.presentation_id
          /\ call.table[i].distance > call.table[ret.value[1].row].distance

IsPrefix(s, t) == Len(s) <= Len(t) /\ \A i \in 1..Len(s) : s[i] = t[i]

HoldsResearchKeyword(message) ==
    \E k \in 1..Len(research_keywords) : contains(lower(message), research_keywords[k])

HoldsAnalysisKeyword(message) ==
    \E k \in 1..Len(analysis_keywords) : contains(lower(message), analysis_keywords[k])

C19_KeywordRoutingAsStated ==
    wfPc # "idle" =>
        /\ HoldsResearchKeyword(wfState.query) => wfAgent = "research_agent"
        /\ HoldsAnalysisKeyword(wfState.query) => wfAgent = "presentation_analyst"
        /\ (~HoldsResearchKeyword(wfState.query) /\ ~HoldsAnalysisKeyword(wfState.query))
              => wfAgent = "presentation_analyst"

\* C19, amended: a message holding a research keyword (in any case, as a
\* substring) goes to the research agent, also when it holds an analysis keyword
\* too; every other message goes to the presentation analyst.
C19_ResearchKeywordsTakePrecedence ==
    wfPc # "idle" =>
        /\ HoldsResearchKeyword(wfState.query) => wfAgent = "research_agent"
        /\ ~HoldsResearchKeyword(wfState.query) => wfAgent = "presentation_analyst"

\* A message in capitals that holds an analysis keyword and then a research
\* keyword was routed to the research agent.
C19_Witness ==
    /\ wfPc # "idle"
    /\ wfAgent = "research_agent"
    /\ HoldsAnalysisKeyword(wfState.query)
    /\ ~contains(wfState.query, <<"m", "a", "r", "k", "e", "t">>)
    /\ contains(wfState.query, <<"M", "A", "R", "K", "E", "T">>)

\* C20: the intent is always one of 'analysis', 'research', 'general'; it is the
\* reply's label when the reply, trimmed and lower-cased, is exactly a label, and
\* 'general' for any other reply, for a reply without content and for a call that
\* raised; the classification raises nothing and the request goes on to a handler.
C20_IntentIsALabelAndDefaultsToGeneral ==
    (call # None /\ call.fn = "_analyze_intent") =>
        /\ ret.raised = ""
        /\ ret.value \in {Str_analysis, Str_research, Str_general}
        /\ ret.handler \in {"_handle_analysis_request", "_handle_research_request",
                            "_handle_general_request"}
        /\ call.reply.kind # "content" => ret.value = Str_general
        /\ call.reply.kind = "content" =>
              LET words == Words(call.reply.content) IN
              IF Len(words) = 1 /\ lower(words[1]) \in IntentLabels
              THEN ret.value = lower(words[1])
              ELSE ret.value = Str_general

\* The classification call raised and the request went on to the general handler.
C20_Witness ==
    /\ call # None /\ call.fn = "_analyze_intent"
    /\ call.reply.kind = "raises"
    /\ ret.value = Str_general
    /\ ret.handler = "_handle_general_request"

\* C21: generate_response returns a result for each of the three intents when
\* the presentation exists and the search and any completion call succeed: type
\* 'analysis' for analysis, 'research' for research, 'general' (confidence 0.9)
\* otherwise, with the chunk indices of the retrieved chunks as sources.
C21_ResultForEachIntent ==
    (/\ call # None /\ call.fn = "ChatService.generate_response"
     /\ call.found /\ call.searchOk /\ call.llmOk)
        => /\ ret.raised = ""
           /\ ret.value.sources = sources_of(call.similar_chunks)
           /\ call.intent = Str_analysis => ret.value.type = "analysis"
           /\ call.intent = Str_research => ret.value.type = "research"
           /\ call.intent \notin {Str_analysis, Str_research}
                => ret.value.type = "general" /\ ret.value.confidence = 9

\* The rows of the table that belong to the call's (user, presentation) pair
C22_Own ==
    {i \in 1..Len(call.table) : /\ call.table[i].user_id = call.user_id
                                /\ call.table[i].presentation_id = call.presentation_id}

C23_HistoryPageOrNotFound ==
    [][Handled("history") =>
        /\ chatHistory' = chatHistory /\ presentations' = presentations
        /\ ~presentation_exists(last'.req.presentation_id) => last'.status = 404
        /\ presentation_exists(last'.req.presentation_id) =>
              /\ last'.status = 200
              /\ last'.body = history_page(last'.req.user_id, last'.req.presentation_id,
                                           last'.req.skip, last'.req.limit)]_vars

\* C24: listing presentations twice with the same skip and limit and no write
\* in between returns the same presentations in the same order both times, and
\* a page has at most `limit` rows.
C24_SamePageTwice ==
    [][(Handled("list") /\ last.op = "list" /\ last.req = last'.req)
          => /\ last'.body = last.body
             /\ Len(last'.body) <= last'.req.limit]_vars

\* The session files hold a chunk file of upload u whose index is not in the
\* received set.
C27_IndexLost(fs, u) ==
    \E k \in 0..MaxTotalChunks :
        /\ <<u, k>> \in DOMAIN fs.chunkFiles
        /\ u \notin DOMAIN fs.metadata \/ ~InList(k, fs.metadata[u].chunks)

C28_FinalizeDatabaseFailure ==
    [][\A u \in DOMAIN started :
          (/\ u \in dirs /\ sent[u] = DeclaredRange(u) /\ sent[u] # {}
           /\ finalize_upload("canonical", u, TRUE, FALSE))
              => /\ last'.status = 500 /\ last'.detail = "Database error"
                 /\ presentations' = presentations
                 /\ tasks' = tasks
                 /\ join(UPLOAD_DIR, started[u].filename) \notin DOMAIN files']_vars

\* The time of a session's most recent activity: that of its metadata, or, for
\* a session whose metadata was never written, the time of its start request.
C29_LastActivity(u) ==
    IF u \in DOMAIN metadata THEN last_activity(metadata[u]) ELSE CHOOSE t \in Times : TRUE

C25_RequestSessionClosedExactlyOnce ==
    /\ \A r \in 1..Len(requests) :
          LET db == db_sessions[requests[r].db] IN
          IF requests[r].pc = "done" THEN ~db.open /\ db.closes = 1
          ELSE db.open /\ db.closes = 0
    /\ \A q, r \in 1..Len(requests) : q # r => requests[q].db # requests[r].db
    /\ (\A r \in 1..Len(requests) : requests[r].pc = "done")
          => \A d \in 1..Len(db_sessions) : ~db_sessions[d].open

\* Three requests have ended, one by a return, one by an HTTPException and one
\* by another exception.
C25_Witness ==
    /\ Len(requests) = 3
    /\ \A r \in 1..3 : requests[r].pc = "done"
    /\ {requests[r].exit : r \in 1..3} = {"return", "HTTPException", "Exception"}

\* A task that creates embeddings
C26_IsEmbeddingTask(t) == t.fn \in {"create_embeddings_task", "create_embeddings"}

C31_CompletionFailureIsAnsweredByApology ==
    (call # None /\ call.fn = "generate_response" /\ ~call.llmOk) =>
        /\ ret.raised = ""
        /\ ret.value = "I'm sorry, I couldn't process your request"
        /\ call.get_similar_chunks_calls = 1

\* C32: in every reachable state every PresentationEmbedding row and every
\* ChatHistory row references a Presentation that exists, deletions of
\* presentations and ingestions overtaken by a deletion included.
C32_RowsReferenceAnExistingPresentation ==
    /\ \A k \in 1..Len(embeddingRows) : presentation_exists(embeddingRows[k].presentation_id)
    /\ \A k \in 1..Len(chatHistory) :
          chatHistory[k] # DeletedChat => presentation_exists(chatHistory[k].presentation_id)

\* A presentation that had an embedding row and a chat row has been deleted next
\* to one that keeps its rows, and an ingestion that had records to insert has
\* ended by raising, its presentation gone.
C32_Witness ==
    /\ \E k \in 1..Len(presentations) : presentations[k] = DeletedPresentation
    /\ \E k \in 1..Len(chatHistory) : chatHistory[k] = DeletedChat
    /\ \E k \in 1..Len(chatHistory) : chatHistory[k] # DeletedChat
    /\ embeddingRows # <<>>
    /\ ingPc = "raised"
    /\ ingArgs # None
    /\ embedding_records # <<>>
    /\ ~presentation_exists(ingArgs.presentation_id)

\* The Presentation rows of session u: the rows carrying its declared filename,
\* for a session that is the only one declaring that filename.
C33_RowsOf(rows, u) ==
    {k \in 1..Len(rows) : rows[k].filename = started[u].filename}

C34_RowsWithinLimits ==
    \A k \in 1..Len(presentations) :
        LET p == presentations[k] IN
        /\ p.file_path \in DOMAIN files
        /\ stored_size(files[p.file_path]) <= MAX_FILE_SIZE
        /\ p.file_size <= MAX_FILE_SIZE
        /\ lower(splitext_ext(p.file_path)) \in ALLOWED_EXTENSIONS

C35_RepeatedIndexReplacesBytesOnly ==
    [][\A u \in DOMAIN started : \A i \in sent[u] : \A c \in ChunkData :
          \A t \in 1..MaxTotalChunks :
          (u \in dirs /\ upload_chunk(c, "canonical", u, i, t, TRUE, 1000))
              => /\ last'.status = 200 /\ last'.detail = "chunk uploaded"
                 /\ <<u, i>> \in DOMAIN chunkFiles' /\ chunkFiles'[<<u, i>>] = c
                 /\ metadata' = metadata]_vars

\* C36: ingestion is not all-or-nothing. When create_embeddings_optimized returns
\* n, exactly n rows were committed by the call; when it raises, the rows
\* committed before the failure stay in the table (at least those of the batches
\* counted so far, at most those and the records of the failing batch); no step
\* of the call removes a committed row.
C36_CommittedBatchesStay ==
    /\ [](ingPc = "returned" => Len(embeddingRows) = total_embeddings)
    /\ [](ingPc = "raised" =>
             /\ Len(embeddingRows) >= total_embeddings
             /\ Len(embeddingRows) <= total_embeddings + Len(embedding_records))
    /\ [][IsPrefix(embeddingRows, embeddingRows')]_vars

\* The call has raised in a later batch after an earlier batch was committed and
\* counted: the rows of the earlier batch are in the table.
C36_Witness ==
    /\ ingPc = "raised"
    /\ total_embeddings > 0
    /\ next_chunk_index > total_embeddings
    /\ Len(embeddingRows) = total_embeddings

\* The last n sentences of a list
C37_Suffix(list, n) == SubSeq(list, Len(list) - n + 1, Len(list))

\* C37: when a chunk is closed, the sentences carried into the next chunk are a
\* (possibly empty) contiguous suffix of the closed chunk's sentences in their
\* order, of total length at most overlap, and the longest such suffix; the next
\* chunk is these sentences followed by the sentence that did not fit.
C37_OverlapIsLongestSuffixWithinOverlap ==
    (call # None /\ call.fn = "pack_sentences" /\ ret.chunks # <<>>) =>
        /\ ret.chunks = <<str_join(call.current_chunk)>>
        /\ \E n \in 0..Len(call.current_chunk) :
              /\ ret.current_chunk = Append(C37_Suffix(call.current_chunk, n), call.sentence)
              /\ total_len(C37_Suffix(call.current_chunk, n)) <= call.overlap
              /\ n < Len(call.current_chunk) =>
                    total_len(C37_Suffix(call.current_chunk, n + 1)) > call.overlap

\* A chunk of three sentences is closed and its last two, which fill the overlap
\* exactly, are carried over.
C37_Witness ==
    /\ call # None /\ call.fn = "pack_sentences" /\ ret.chunks # <<>>
    /\ Len(call.current_chunk) = 3
    /\ Len(ret.current_chunk) = 3
    /\ total_len(C37_Suffix(call.current_chunk, 2)) = call.overlap

\* C38: the batch stream tags the chunks of one file 0, 1, 2, ... in the order
\* they are produced, across pages and batches without gap or repeat, tags each
\* with the presentation id, yields every chunk in exactly one batch, yields no
\* empty batch, and every batch but possibly the last holds batch_size chunks.
C38_BatchesTagChunksInOrder ==
    (call # None /\ call.fn = "process_large_file_in_batches_with_metadata") =>
        LET all == Flatten(ret)
            produced == Flatten(call.pages)
        IN /\ Len(all) = Len(produced)
           /\ \A i \in 1..Len(all) :
                 /\ all[i].text = produced[i]
                 /\ all[i].chunk_index = i - 1
                 /\ all[i].presentation_id = call.presentation_id
           /\ \A b \in 1..Len(ret) :
                 /\ ret[b] # <<>>
                 /\ b < Len(ret) => Len(ret[b]) = call.batch_size

\* A file of three pages, the second one empty, whose chunks fill one batch and
\* part of a second that starts on one page and ends on the next.
C38_Witness ==
    /\ call # None /\ call.fn = "process_large_file_in_batches_with_metadata"
    /\ Len(call.pages) = 3 /\ call.pages[2] = <<>> /\ Len(call.pages[1]) = 1
    /\ Len(call.pages[3]) = 2
    /\ call.batch_size = 2
    /\ Len(ret) = 2 /\ Len(ret[2]) = 1

\* C39: a failed similarity search does not abort the workflow: the retrieve step
\* leaves no documents and the context 'No relevant context found.', analyze and
\* generate run, and generate's reply is returned (the run ends by raising only
\* in generate, when the completion call fails). Without a presentation id or a
\* session the retrieve step makes no search call and leaves the 'No presentation
\* context available.' context and no documents.
C39_RetrieveNeverAbortsTheWorkflow ==
    /\ [](wfPc \notin {"idle", "retrieve"} =>
             IF wfState.presentation_id = 0 \/ ~wfState.db_session
             THEN /\ call = None
                  /\ wfState.context = " No presentation context available."
                  /\ wfState.retrieved_docs = <<>>
             ELSE /\ call # None /\ call.search_calls = 1
                  /\ ret.raised # "" =>
                        /\ wfState.context = "No relevant context found."
                        /\ wfState.retrieved_docs = <<>>)
    /\ [](wfPc = "raised" => visited = <<"retrieve", "analyze", "generate">>)
    /\ [][generate_node(TRUE) =>
             /\ wfPc' = "END"
             /\ wfState'.messages[2] = AIMessage(<<"reply to", wfState.query, wfState.context>>)]_vars
    /\ [](wfPc = "returned" => chat_return = wfState.messages[2].content)
    /\ (wfPc = "analyze") ~> (wfPc \in {"returned", "raised"})

\* A chat() whose search failed has returned the reply generate made from the
\* 'No relevant context found.' context.
C39_Witness ==
    /\ wfPc = "returned"
    /\ call # None /\ ret.raised # ""
    /\ visited = <<"retrieve", "analyze", "generate">>
    /\ chat_return = <<"reply to", wfState.query, "No relevant context found.">>

\* The path under which an upload of this filename is stored
C40_PathOf(filename) == join(UPLOAD_DIR, basename(filename))

\* The rows there were are still there, and one was added referencing the path.
C40_RowAddedFor(path) ==
    /\ Len(presentations') = Len(presentations) + 1
    /\ \A k \in 1..Len(presentations) : presentations'[k] = presentations[k]
    /\ presentations'[Len(presentations')].file_path = path

\* A direct upload of a filename that an earlier upload's row carries overwrites
\* the stored file with its own content; both rows remain and reference one path.
C40_DirectUploadOverwrites ==
    [][\A f \in FileNames : \A c \in Contents :
          (/\ \E k \in 1..Len(presentations) : presentations[k].filename = f
           /\ validate_file(f, c) = "ok"
           /\ upload_presentation(f, c, TRUE, TRUE))
              => /\ C40_RowAddedFor(C40_PathOf(f))
                 /\ \E k \in 1..Len(presentations) : presentations[k].file_path = C40_PathOf(f)
                 /\ files'[C40_PathOf(f)] = c]_vars

\* C40: stored files are keyed only by base filename: when two uploads, direct or
\* finalized chunked in any combination, carry the same filename, the later one
\* overwrites the earlier file, both Presentation rows remain and reference the
\* same path, and that path holds the later upload's content.
C40_SameFilenameOverwrites ==
    /\ C40_DirectUploadOverwrites
    /\ [][\A u \in DOMAIN started :
             (/\ u \in dirs /\ sent[u] = DeclaredRange(u) /\ sent[u] # {}
              /\ \E k \in 1..Len(presentations) : presentations[k].filename = started[u].filename
              /\ finalize_upload("canonical", u, TRUE, TRUE))
                 => /\ C40_RowAddedFor(C40_PathOf(started[u].filename))
                    /\ C40_PathOf(started[u].filename) \in DOMAIN files'
                    /\ "bytes" \in DOMAIN files'[C40_PathOf(started[u].filename)]]_vars

====
